---- MODULE Spec2Model ----
(***************************************************************************)
(* Account leasing of twscrape's AccountsPool (src/twscrape/               *)
(* accounts_pool.py) over the accounts table (src/twscrape/db_models.py).  *)
(*                                                                         *)
(* The store is the accounts table.  Every call of fetchone / execute      *)
(* (src/twscrape/db_pg.py) runs one SQL statement in a transaction of its  *)
(* own; one statement is one step of the model.  A pool method that issues *)
(* several statements is several steps, and the steps of different callers *)
(* interleave freely.                                                      *)
(*                                                                         *)
(* Time is the store's now(), counted in minutes.  A lock is stored as the *)
(* text of a timestamptz and cast back when it is compared; that round     *)
(* trip keeps the instant, so a lock is held here as the instant itself.   *)
(***************************************************************************)
EXTENDS Integers, Sequences, FiniteSets, TLC

\* ---------------------------------------------------------------- bounds
Users == {"u1", "u2"}
Queues == {"q1", "q2"}
Callers == {"c1", "c2"}
Msgs == {"err"}
Passwords == {"p1", "p2"}
CookieJars == {{"auth_token"}, {"ct0"}}
Urls == {"x", "y"}

\* the clock is observed every TickStep minutes, up to MaxTime
TickStep == 5
MaxTime == 20
\* req_count is drawn from 0..MaxDelta; a stats entry is capped at MaxStat
MaxDelta == 1
MaxStat == 1
\* the failed attempts of a get_for_queue_or_wait are counted up to MaxPolls
MaxPolls == 2
\* a quota window resets ResetAfter minutes after the request
ResetAfter == 5
\* the sequence of proxies.id is followed up to MaxId
MaxId == 4
\* mark_failed is followed up to a fail_count of MaxFail
MaxFail == 2

\* interval '15 minutes' of _get_and_lock
LEASE_TTL == 15

\* ORDER BY username (AccountsPool._order_by)
UserOrder == <<"u1", "u2">>

Rank(u) == CHOOSE i \in 1..Len(UserOrder) : UserOrder[i] = u

\* ------------------------------------------------------------ jsonb maps
\* '{}'::jsonb
EmptyMap == [k \in {} |-> 0]

\* a write of key k that stores a new object holding only k
JsonbSetWhole(m, k, v) == [x \in {k} |-> v]

\* jsonb_set(m, '{k}', v, true)
JsonbSet(m, k, v) == [x \in (DOMAIN m) \cup {k} |-> IF x = k THEN v ELSE m[x]]

\* m - k
JsonbRemove(m, k) == [x \in (DOMAIN m) \ {k} |-> m[x]]

\* COALESCE((m->>'k')::int, 0)
Coalesce0(m, k) == IF k \in DOMAIN m THEN m[k] ELSE 0

\* ------------------------------------------------------------------ rows
NULL == "null"

NoLease == [user |-> "none", queue |-> "none", until |-> 0, at |-> 0]

NoPend == [user |-> "none", queue |-> "none", req |-> 0]

NoObj == [user |-> "none"]

\* Account(...) of add_account: active = False, locks = {}, stats = {}
NewRow(act) ==
    [active |-> act, locks |-> EmptyMap, stats |-> EmptyMap,
     last_used |-> <<>>, error_msg |-> NULL,
     password |-> "p1", cookies |-> {}, proxy |-> NULL]

\* an add_account that activates every account that comes with cookies
AccountRowAnyCookie(pw, ck, px) ==
    [active |-> ck # {}, locks |-> EmptyMap, stats |-> EmptyMap,
     last_used |-> <<>>, error_msg |-> NULL,
     password |-> pw, cookies |-> ck, proxy |-> px]

\* Account(...) of add_account, then 'if "ct0" in account.cookies'
AccountRow(pw, ck, px) ==
    [active |-> "ct0" \in ck, locks |-> EmptyMap, stats |-> EmptyMap,
     last_used |-> <<>>, error_msg |-> NULL,
     password |-> pw, cookies |-> ck, proxy |-> px]

NoOut == [kind |-> "none"]

\* a Queue Client that is executing no request
NoReq == [stage |-> "none", proxy |-> 0, failed |-> 0, tries |-> 0, result |-> "none"]

VARIABLES
    now,         \* the store's clock
    accounts,    \* the accounts table: username -> row
    raise_flag,  \* AccountsPool._raise_when_no_account
    pc,          \* where each caller is
    held,        \* the account a caller was returned by get_for_queue
    pend,        \* arguments of the call a caller is in
    obj,         \* the Account object a caller's login works on
    msg_shown,   \* msg_shown of get_for_queue_or_wait
    polls,       \* failed attempts of the running get_for_queue_or_wait
    intact,      \* history: nobody else has rewritten the lock of held[c]
    marked,      \* history: u was deactivated or added inactive, and not reactivated since
    migration,   \* _migration_checked / _migrations_exist of db_pg
    schema,      \* the store has the accounts table
    store_err,   \* history: a store error was raised inside c's running call
    proxies,     \* the proxies table: id -> row
    next_id,     \* the sequence behind proxies.id
    out,         \* what the last finished read of a caller returned
    cl,          \* the request a Queue Client is executing
    proxy_id     \* the column accounts.proxy_id: username -> proxies.id, 0 for NULL

\* the state of db_pg and of the proxies table, and the results of reads
ext == <<migration, schema, store_err, proxies, next_id, out, cl, proxy_id>>

\* the state of the Queue Clients
client == <<cl, proxy_id>>

vars == <<now, accounts, raise_flag, pc, held, pend, obj, msg_shown, polls,
          intact, marked, migration, schema, store_err, proxies, next_id, out,
          cl, proxy_id>>

\* -------------------------------------------------------------- the pool
\* a lease that forgets the lock condition
EligibleIgnoresLock(row, q, t) == row.active

\* a lease that takes a lock ending exactly now for expired
EligibleAtNow(row, q, t) ==
    row.active /\ (q \notin DOMAIN row.locks \/ row.locks[q] <= t)

\* WHERE active = true AND (locks->>q IS NULL OR (locks->>q)::timestamptz < now())
Eligible(row, q, t) ==
    row.active /\ (q \notin DOMAIN row.locks \/ row.locks[q] < t)

\* a selection that takes the last eligible username instead of the first
SelectForQueueLast(q) ==
    LET S == {u \in DOMAIN accounts : Eligible(accounts[u], q, now)}
    IN  {u \in S : \A v \in S : Rank(u) >= Rank(v)}

\* SELECT username ... ORDER BY username LIMIT 1: empty, or the one username
SelectForQueue(q) ==
    LET S == {u \in DOMAIN accounts : Eligible(accounts[u], q, now)}
    IN  {u \in S : \A v \in S : Rank(u) <= Rank(v)}

\* an attempt that stamps last_used on the active accounts it looked at
NoRowLeasedStamp ==
    [u \in DOMAIN accounts |->
        IF accounts[u].active THEN [accounts[u] EXCEPT !.last_used = <<now>>]
        ELSE accounts[u]]

\* UPDATE ... WHERE username = (SELECT ... LIMIT 1) with an empty subquery:
\* no row is updated
NoRowLeased == accounts

\* a lease that writes now() instead of now() + 15 minutes
GetAndLockRowNoTtl(row, q, t) ==
    [row EXCEPT !.locks = JsonbSet(row.locks, q, t), !.last_used = <<t>>]

\* a lease that writes a window twice as long
GetAndLockRowLong(row, q, t) ==
    [row EXCEPT !.locks = JsonbSet(row.locks, q, t + 2 * LEASE_TTL),
                !.last_used = <<t>>]

\* UPDATE ... SET locks = jsonb_set(locks, q, now() + 15 minutes), last_used = now()
GetAndLockRow(row, q, t) ==
    [row EXCEPT !.locks = JsonbSet(row.locks, q, t + LEASE_TTL),
                !.last_used = <<t>>]

\* a release that writes req_count over the counter instead of adding it
LockUntilRowOverwrite(row, q, unlock_at, req, t) ==
    [row EXCEPT !.locks = JsonbSet(row.locks, q, unlock_at),
                !.stats = JsonbSet(row.stats, q, req),
                !.last_used = <<t>>]

\* UPDATE of lock_until on one row
LockUntilRow(row, q, unlock_at, req, t) ==
    [row EXCEPT !.locks = JsonbSet(row.locks, q, unlock_at),
                !.stats = JsonbSet(row.stats, q, Coalesce0(row.stats, q) + req),
                !.last_used = <<t>>]

\* an unlock that stores now() as the unlock time instead of removing the key
UnlockRowToNow(row, q, t) ==
    [row EXCEPT !.locks = JsonbSet(row.locks, q, t), !.last_used = <<t>>]

\* first UPDATE of unlock on one row
UnlockRow(row, q, t) ==
    [row EXCEPT !.locks = JsonbRemove(row.locks, q), !.last_used = <<t>>]

\* an unlock whose count never reaches the store
UnlockStatsRowDropped(row, q, req) == row

\* an unlock that writes req_count over the counter instead of adding it
UnlockStatsRowOverwrite(row, q, req) ==
    [row EXCEPT !.stats = JsonbSet(row.stats, q, req)]

\* second UPDATE of unlock on one row
UnlockStatsRow(row, q, req) ==
    [row EXCEPT !.stats = JsonbSet(row.stats, q, Coalesce0(row.stats, q) + req)]

\* unlock as a whole on one row: the second UPDATE runs only if req_count > 0
UnlockWhole(row, q, req, t) ==
    IF req > 0 THEN UnlockStatsRow(UnlockRow(row, q, t), q, req)
    ELSE UnlockRow(row, q, t)

\* a deactivation that also clears the locks of the account
MarkInactiveRowUnlock(row, msg) ==
    [row EXCEPT !.active = FALSE, !.error_msg = msg, !.locks = EmptyMap]

\* UPDATE of mark_inactive on one row
MarkInactiveRow(row, msg) == [row EXCEPT !.active = FALSE, !.error_msg = msg]

\* UPDATE of set_active on one row
SetActiveRow(row, act) == [row EXCEPT !.active = act]

\* UPDATE ... WHERE username = u: no row, no change
UpdateWhere(u, row) ==
    IF u \in DOMAIN accounts THEN [accounts EXCEPT ![u] = row] ELSE accounts

\* INSERT ... ON CONFLICT(username) DO UPDATE SET every column (save)
Upsert(u, row) ==
    [x \in (DOMAIN accounts) \cup {u} |-> IF x = u THEN row ELSE accounts[x]]

\* next_available_at: the locks for q of the active accounts that have one
NextAvailableAt(q) ==
    {accounts[u].locks[q] : u \in {x \in DOMAIN accounts :
         accounts[x].active /\ q \in DOMAIN accounts[x].locks}}

\* a wait that asks next_available_at and logs after every failed attempt
AfterFailedAttemptEvery(c) ==
    IF raise_flag THEN "w_raised" ELSE "w_nat"

\* a wait that looks at raise_when_no_account only once the message was shown
AfterFailedAttemptLate(c) ==
    IF ~msg_shown[c] THEN "w_nat"
    ELSE IF raise_flag THEN "w_raised"
    ELSE "w_sleep"

\* a wait that returns None after a failed attempt instead of sleeping
AfterFailedAttemptGiveUp(c) ==
    IF raise_flag THEN "w_raised"
    ELSE IF ~msg_shown[c] THEN "w_nat"
    ELSE "w_none"

\* get_for_queue_or_wait after a failed attempt: raise, ask next_available_at
\* (first failure only), or sleep
AfterFailedAttempt(c) ==
    IF raise_flag THEN "w_raised"
    ELSE IF ~msg_shown[c] THEN "w_nat"
    ELSE "w_sleep"

\* the login collaborator: on success the account becomes active, on failure
\* it raises and leaves the account as it was
LoginOutcome(row, ok) == IF ok THEN [row EXCEPT !.active = TRUE] ELSE row

\* callers other than c whose lease is on (u, q)
OthersOn(c, u, q) ==
    {d \in Callers \ {c} : held[d].user = u /\ held[d].queue = q}

Voided(c, u, q) ==
    [d \in Callers |-> IF d \in OthersOn(c, u, q) THEN FALSE ELSE intact[d]]

\* ------------------------------------------------------------ the actions
InitPool(rows, flags) ==
    /\ now = 0
    /\ accounts \in rows
    /\ raise_flag \in flags
    /\ pc = [c \in Callers |-> "idle"]
    /\ held = [c \in Callers |-> NoLease]
    /\ pend = [c \in Callers |-> NoPend]
    /\ obj = [c \in Callers |-> NoObj]
    /\ msg_shown = [c \in Callers |-> FALSE]
    /\ polls = [c \in Callers |-> 0]
    /\ intact = [c \in Callers |-> FALSE]
    /\ marked = [u \in Users |-> FALSE]

\* the schema is in place and was checked, no proxy is stored
ExtIdle ==
    /\ migration = "ok"
    /\ schema = TRUE
    /\ store_err = [c \in Callers |-> FALSE]
    /\ proxies = EmptyMap
    /\ next_id = 1
    /\ out = [c \in Callers |-> NoOut]
    /\ cl = [c \in Callers |-> NoReq]
    /\ proxy_id = [u \in Users |-> 0]

InitWith(rows, flags) == InitPool(rows, flags) /\ ExtIdle

\* the clock advances
Tick ==
    /\ now + TickStep <= MaxTime
    /\ now' = now + TickStep
    /\ UNCHANGED <<accounts, raise_flag, pc, held, pend, obj, msg_shown, polls,
                   intact, marked>>
    /\ UNCHANGED ext

\* the statement of get_for_queue / _get_and_lock, run by c: the row it
\* returns (RETURNING *) becomes c's account
Leased(c, q, u) ==
    /\ accounts' = [accounts EXCEPT ![u] = GetAndLockRow(@, q, now)]
    /\ held' = [held EXCEPT ![c] =
                   [user |-> u, queue |-> q,
                    until |-> accounts'[u].locks[q],
                    at |-> accounts'[u].last_used[1]]]
    /\ intact' = [intact EXCEPT ![c] = TRUE]

\* get_for_queue(q)
GetForQueue(c, q) ==
    /\ pc[c] = "idle"
    /\ LET sel == SelectForQueue(q)
       IN  IF sel = {}
           THEN /\ pc' = [pc EXCEPT ![c] = "empty"]
                /\ pend' = [pend EXCEPT ![c] = [NoPend EXCEPT !.queue = q]]
                /\ accounts' = NoRowLeased
                /\ UNCHANGED <<held, intact>>
           ELSE /\ Leased(c, q, CHOOSE x \in sel : TRUE)
                /\ pc' = [pc EXCEPT ![c] = "holding"]
                /\ UNCHANGED pend
    /\ UNCHANGED <<now, raise_flag, obj, msg_shown, polls, marked>>
    /\ UNCHANGED ext

\* the caller of a get_for_queue that returned None carries on
ReturnEmpty(c) ==
    /\ pc[c] = "empty"
    /\ pc' = [pc EXCEPT ![c] = "idle"]
    /\ pend' = [pend EXCEPT ![c] = NoPend]
    /\ UNCHANGED <<now, accounts, raise_flag, held, obj, msg_shown, polls,
                   intact, marked>>
    /\ UNCHANGED ext

\* lock_until(username, queue, unlock_at, req_count) by the holder of a lease
LockUntil(c, unlock_at, req) ==
    /\ pc[c] = "holding"
    /\ LET u == held[c].user
           q == held[c].queue
       IN  /\ u \in DOMAIN accounts => Coalesce0(accounts[u].stats, q) + req <= MaxStat
           /\ accounts' = UpdateWhere(u, LockUntilRow(accounts[u], q, unlock_at, req, now))
           /\ intact' = Voided(c, u, q)
    /\ pc' = [pc EXCEPT ![c] = "idle"]
    /\ held' = [held EXCEPT ![c] = NoLease]
    /\ UNCHANGED <<now, raise_flag, pend, obj, msg_shown, polls, marked>>
    /\ UNCHANGED ext

\* unlock(username, queue, req_count), first statement
Unlock(c, req) ==
    /\ pc[c] = "holding"
    /\ LET u == held[c].user
           q == held[c].queue
       IN  /\ accounts' = UpdateWhere(u, UnlockRow(accounts[u], q, now))
           /\ intact' = Voided(c, u, q)
           /\ IF req > 0
              THEN /\ pc' = [pc EXCEPT ![c] = "unlock_stats"]
                   /\ pend' = [pend EXCEPT ![c] = [user |-> u, queue |-> q, req |-> req]]
              ELSE /\ pc' = [pc EXCEPT ![c] = "idle"]
                   /\ UNCHANGED pend
    /\ held' = [held EXCEPT ![c] = NoLease]
    /\ UNCHANGED <<now, raise_flag, obj, msg_shown, polls, marked>>
    /\ UNCHANGED ext

\* unlock, second statement (only when req_count > 0)
UnlockStats(c) ==
    /\ pc[c] = "unlock_stats"
    /\ LET u == pend[c].user
           q == pend[c].queue
       IN  /\ u \in DOMAIN accounts => Coalesce0(accounts[u].stats, q) + pend[c].req <= MaxStat
           /\ accounts' = UpdateWhere(u, UnlockStatsRow(accounts[u], q, pend[c].req))
    /\ pc' = [pc EXCEPT ![c] = "idle"]
    /\ pend' = [pend EXCEPT ![c] = NoPend]
    /\ UNCHANGED <<now, raise_flag, held, obj, msg_shown, polls, intact, marked>>
    /\ UNCHANGED ext

\* mark_inactive(username, error_msg) by the holder of a lease
MarkInactive(c, msg) ==
    /\ pc[c] = "holding"
    /\ accounts' = UpdateWhere(held[c].user, MarkInactiveRow(accounts[held[c].user], msg))
    /\ marked' = [marked EXCEPT ![held[c].user] = TRUE]
    /\ pc' = [pc EXCEPT ![c] = "idle"]
    /\ held' = [held EXCEPT ![c] = NoLease]
    /\ UNCHANGED <<now, raise_flag, pend, obj, msg_shown, polls, intact>>
    /\ UNCHANGED ext

\* set_active(username, active)
SetActive(u, act) ==
    /\ accounts' = UpdateWhere(u, SetActiveRow(accounts[u], act))
    /\ marked' = [marked EXCEPT ![u] = IF act THEN FALSE ELSE @]
    /\ UNCHANGED <<now, raise_flag, pc, held, pend, obj, msg_shown, polls, intact>>
    /\ UNCHANGED ext

\* login_all(usernames): SELECT * FROM accounts WHERE username IN (...),
\* the row becomes the Account object handed to login
LoginRead(c, u) ==
    /\ pc[c] = "idle"
    /\ u \in DOMAIN accounts
    /\ obj' = [obj EXCEPT ![c] = [user |-> u, row |-> accounts[u]]]
    /\ pc' = [pc EXCEPT ![c] = "login"]
    /\ UNCHANGED <<now, accounts, raise_flag, held, pend, msg_shown, polls,
                   intact, marked>>
    /\ UNCHANGED ext

\* login(account): the collaborator succeeds or raises, and in both cases
\* (finally) save(account) writes every column of the object back
LoginSave(c, ok) ==
    /\ pc[c] = "login"
    /\ accounts' = Upsert(obj[c].user, LoginOutcome(obj[c].row, ok))
    /\ marked' = [marked EXCEPT ![obj[c].user] = IF ok THEN FALSE ELSE @]
    /\ intact' = [d \in Callers |-> IF held[d].user = obj[c].user THEN FALSE ELSE intact[d]]
    /\ obj' = [obj EXCEPT ![c] = NoObj]
    /\ pc' = [pc EXCEPT ![c] = "idle"]
    /\ UNCHANGED <<now, raise_flag, held, pend, msg_shown, polls>>
    /\ UNCHANGED ext

\* get_for_queue_or_wait(q) is entered: msg_shown = False
WaitStart(c, q) ==
    /\ pc[c] = "idle"
    /\ pc' = [pc EXCEPT ![c] = "w_attempt"]
    /\ pend' = [pend EXCEPT ![c] = [NoPend EXCEPT !.queue = q]]
    /\ msg_shown' = [msg_shown EXCEPT ![c] = FALSE]
    /\ polls' = [polls EXCEPT ![c] = 0]
    /\ UNCHANGED <<now, accounts, raise_flag, held, obj, intact, marked>>
    /\ UNCHANGED ext

\* one turn of the loop: get_for_queue, then return the account, raise,
\* go on to next_available_at, or go to sleep
LeaseTurn(c) ==
    /\ LET q == pend[c].queue
           sel == SelectForQueue(q)
       IN  IF sel = {}
           THEN /\ pc' = [pc EXCEPT ![c] = AfterFailedAttempt(c)]
                /\ polls' = [polls EXCEPT ![c] = IF @ < MaxPolls THEN @ + 1 ELSE @]
                /\ accounts' = NoRowLeased
                /\ UNCHANGED <<held, intact, pend>>
           ELSE /\ Leased(c, q, CHOOSE x \in sel : TRUE)
                /\ pc' = [pc EXCEPT ![c] = "holding"]
                /\ pend' = [pend EXCEPT ![c] = NoPend]
                /\ UNCHANGED polls
    /\ UNCHANGED <<now, raise_flag, obj, msg_shown, marked>>

\* a turn of the loop while the store answers
WaitAttempt(c) ==
    /\ pc[c] = "w_attempt"
    /\ LeaseTurn(c)
    /\ UNCHANGED ext

\* nat = next_available_at(queue): None returns None, else msg_shown = True
WaitNextAvailable(c) ==
    /\ pc[c] = "w_nat"
    /\ IF NextAvailableAt(pend[c].queue) = {}
       THEN /\ pc' = [pc EXCEPT ![c] = "w_none"]
            /\ UNCHANGED msg_shown
       ELSE /\ pc' = [pc EXCEPT ![c] = "w_sleep"]
            /\ msg_shown' = [msg_shown EXCEPT ![c] = TRUE]
    /\ UNCHANGED <<now, accounts, raise_flag, held, pend, obj, polls, intact, marked>>
    /\ UNCHANGED ext

\* asyncio.sleep(5) is over: continue
WaitSleep(c) ==
    /\ pc[c] = "w_sleep"
    /\ pc' = [pc EXCEPT ![c] = "w_attempt"]
    /\ UNCHANGED <<now, accounts, raise_flag, held, pend, obj, msg_shown, polls,
                   intact, marked>>
    /\ UNCHANGED ext

\* the caller gives the wait up while it sleeps (its task is cancelled in
\* asyncio.sleep): the call ends there, no statement is issued
WaitAbandon(c) ==
    /\ pc[c] = "w_sleep"
    /\ pc' = [pc EXCEPT ![c] = "idle"]
    /\ pend' = [pend EXCEPT ![c] = NoPend]
    /\ out' = [out EXCEPT ![c] = [kind |-> "abandoned", polls |-> polls[c]]]
    /\ UNCHANGED <<now, accounts, raise_flag, held, obj, msg_shown, polls, intact,
                   marked, migration, schema, store_err, proxies, next_id>>
    /\ UNCHANGED client

\* the caller of a get_for_queue_or_wait that raised or returned None carries on
WaitOver(c) ==
    /\ pc[c] \in {"w_raised", "w_none"}
    /\ pc' = [pc EXCEPT ![c] = "idle"]
    /\ pend' = [pend EXCEPT ![c] = NoPend]
    /\ msg_shown' = [msg_shown EXCEPT ![c] = FALSE]
    /\ polls' = [polls EXCEPT ![c] = 0]
    /\ UNCHANGED <<now, accounts, raise_flag, held, obj, intact, marked>>
    /\ UNCHANGED ext

UnlockAts == {now, now + ResetAfter}

\* check_migrations(): what it leaves in the module globals, whether it
\* raises MigrationError, and whether it swallowed an error of the store
CheckMigrations(m, sch, checkFails) ==
    IF m = "ok" THEN [state |-> "ok", raises |-> FALSE, swallowed |-> FALSE]
    ELSE IF m = "missing" THEN [state |-> "missing", raises |-> TRUE, swallowed |-> FALSE]
    ELSE IF checkFails THEN [state |-> "ok", raises |-> FALSE, swallowed |-> TRUE]
    ELSE IF sch THEN [state |-> "ok", raises |-> FALSE, swallowed |-> FALSE]
    ELSE [state |-> "missing", raises |-> TRUE, swallowed |-> FALSE]

\* a loop that takes an exception of the store for a failed attempt
AfterStoreErrorRetry(c) == IF msg_shown[c] THEN "w_sleep" ELSE "w_nat"

\* get_for_queue_or_wait has no handler around get_for_queue, session_scope
\* rolls back and re-raises: the exception ends the call
AfterStoreError(c) == "w_error"

\* a turn of the loop against a store that may fail: fetchone runs
\* check_migrations, then the statement of get_for_queue in session_scope;
\* an exception of the statement leaves session_scope and the loop
WaitAttemptStore(c, checkFails, stmtFails) ==
    /\ pc[c] = "w_attempt"
    /\ LET r == CheckMigrations(migration, schema, checkFails)
       IN  /\ migration' = r.state
           /\ IF r.raises \/ stmtFails \/ ~schema
              THEN /\ pc' = [pc EXCEPT ![c] = AfterStoreError(c)]
                   /\ store_err' = [store_err EXCEPT ![c] = TRUE]
                   /\ UNCHANGED <<now, accounts, raise_flag, held, pend, obj,
                                  msg_shown, polls, intact, marked>>
              ELSE /\ LeaseTurn(c)
                   /\ store_err' = [store_err EXCEPT ![c] = @ \/ r.swallowed]
    /\ UNCHANGED <<schema, proxies, next_id, out>>
    /\ UNCHANGED client

\* the caller of a get_for_queue_or_wait that ended with the store's error
WaitFailed(c) ==
    /\ pc[c] = "w_error"
    /\ pc' = [pc EXCEPT ![c] = "idle"]
    /\ pend' = [pend EXCEPT ![c] = NoPend]
    /\ store_err' = [store_err EXCEPT ![c] = FALSE]
    /\ UNCHANGED <<now, accounts, raise_flag, held, obj, msg_shown, polls,
                   intact, marked, migration, schema, proxies, next_id, out>>
    /\ UNCHANGED client

\* an add_account that does not look the username up
ExistsNever(u) == FALSE

\* SELECT * FROM accounts WHERE username = :username (add_account)
Exists(u) == u \in DOMAIN accounts

\* the defaults of a proxies row
NewProxy(url) == [url |-> url, active |-> TRUE, fail_count |-> 0, last_failed |-> <<>>]

\* an insert that replaces the stored row of the url by a new one
InsertProxyReplace(tbl, id, url) ==
    [i \in {j \in DOMAIN tbl : tbl[j].url # url} \cup {id} |->
        IF i = id THEN NewProxy(url) ELSE tbl[i]]

\* an insert that takes the proxy back into use when its url is stored
InsertProxyUpsert(tbl, id, url) ==
    IF \E i \in DOMAIN tbl : tbl[i].url = url
    THEN [i \in DOMAIN tbl |-> IF tbl[i].url = url THEN NewProxy(url) ELSE tbl[i]]
    ELSE [i \in (DOMAIN tbl) \cup {id} |-> IF i = id THEN NewProxy(url) ELSE tbl[i]]

\* INSERT INTO proxies (url) ... ON CONFLICT (url) DO NOTHING, with id the
\* value the sequence hands out
InsertProxy(tbl, id, url) ==
    IF \E i \in DOMAIN tbl : tbl[i].url = url THEN tbl
    ELSE [i \in (DOMAIN tbl) \cup {id} |-> IF i = id THEN NewProxy(url) ELSE tbl[i]]

\* ensure(url) on the stored table
EnsureRows(url) == InsertProxy(proxies, next_id, url)

RECURSIVE BulkRows(_, _, _)
\* executemany: one INSERT per url of the list, in one transaction; every
\* INSERT draws from the sequence
BulkRows(tbl, id, urls) ==
    IF urls = <<>> THEN tbl
    ELSE BulkRows(InsertProxy(tbl, id, Head(urls)), id + 1, Tail(urls))

\* SELECT id, url FROM proxies WHERE active = true
ActiveIdsAll == DOMAIN proxies

ActiveIds == {i \in DOMAIN proxies : proxies[i].active}

\* an UPDATE that counts a failure only for a proxy still in use
MarkFailedRowOnce(row, t) ==
    [row EXCEPT !.active = FALSE,
                !.fail_count = IF row.active THEN @ + 1 ELSE @,
                !.last_failed = <<t>>]

\* an UPDATE that counts the failure and leaves the proxy in use
MarkFailedRowKeep(row, t) ==
    [row EXCEPT !.fail_count = @ + 1, !.last_failed = <<t>>]

\* UPDATE proxies SET active = false, fail_count = fail_count + 1,
\* last_failed = :ts
MarkFailedRow(row, t) ==
    [row EXCEPT !.active = FALSE, !.fail_count = @ + 1, !.last_failed = <<t>>]

\* ensure(url)
Ensure(url) ==
    /\ next_id <= MaxId
    /\ proxies' = EnsureRows(url)
    /\ next_id' = next_id + 1
    /\ UNCHANGED <<now, accounts, raise_flag, pc, held, pend, obj, msg_shown, polls,
                   intact, marked, migration, schema, store_err, out>>
    /\ UNCHANGED client

\* load_from_file: no statement for an empty file
BulkLoad(urls) ==
    /\ next_id + Len(urls) <= MaxId + 1
    /\ proxies' = BulkRows(proxies, next_id, urls)
    /\ next_id' = next_id + Len(urls)
    /\ UNCHANGED <<now, accounts, raise_flag, pc, held, pend, obj, msg_shown, polls,
                   intact, marked, migration, schema, store_err, out>>
    /\ UNCHANGED client

\* get_active(): one of the active proxies (ORDER BY random()), or None
GetActive(c) ==
    /\ pc[c] = "idle"
    /\ IF ActiveIds = {}
       THEN out' = [out EXCEPT ![c] = [kind |-> "proxy", id |-> 0, url |-> NULL]]
       ELSE \E i \in ActiveIds :
              out' = [out EXCEPT ![c] = [kind |-> "proxy", id |-> i, url |-> proxies[i].url]]
    /\ UNCHANGED <<now, accounts, raise_flag, pc, held, pend, obj, msg_shown, polls,
                   intact, marked, migration, schema, store_err, proxies, next_id>>
    /\ UNCHANGED client

\* mark_failed(proxy_id)
MarkFailed(id) ==
    /\ id \in DOMAIN proxies => proxies[id].fail_count < MaxFail
    /\ proxies' = IF id \in DOMAIN proxies
                  THEN [proxies EXCEPT ![id] = MarkFailedRow(@, now)]
                  ELSE proxies
    /\ UNCHANGED <<now, accounts, raise_flag, pc, held, pend, obj, msg_shown, polls,
                   intact, marked, migration, schema, store_err, next_id, out>>
    /\ UNCHANGED client

\* add_account, first statement: the username is looked up; when it is
\* there the call logs and returns, else the Account object is built
AddSelect(c, u, pw, ck, px) ==
    /\ pc[c] = "idle"
    /\ IF Exists(u)
       THEN /\ out' = [out EXCEPT ![c] = [kind |-> "add", user |-> u, added |-> FALSE]]
            /\ UNCHANGED <<pc, obj>>
       ELSE /\ obj' = [obj EXCEPT ![c] = [user |-> u, row |-> AccountRow(pw, ck, px)]]
            /\ pc' = [pc EXCEPT ![c] = IF px = NULL THEN "adding" ELSE "add_ensure"]
            /\ UNCHANGED out
    /\ UNCHANGED <<now, accounts, raise_flag, held, pend, msg_shown, polls,
                   intact, marked, migration, schema, store_err, proxies, next_id>>
    /\ UNCHANGED client

\* add_account with a proxy: ensure(proxy)
AddEnsure(c) ==
    /\ pc[c] = "add_ensure"
    /\ next_id <= MaxId
    /\ proxies' = EnsureRows(obj[c].row.proxy)
    /\ next_id' = next_id + 1
    /\ pc' = [pc EXCEPT ![c] = "adding"]
    /\ UNCHANGED <<now, accounts, raise_flag, held, pend, obj, msg_shown, polls,
                   intact, marked, migration, schema, store_err, out>>
    /\ UNCHANGED client

\* add_account, last statement: save(account)
AddSave(c) ==
    /\ pc[c] = "adding"
    /\ accounts' = Upsert(obj[c].user, obj[c].row)
    /\ marked' = [marked EXCEPT ![obj[c].user] = ~obj[c].row.active]
    /\ intact' = [d \in Callers |-> IF held[d].user = obj[c].user THEN FALSE ELSE intact[d]]
    /\ out' = [out EXCEPT ![c] = [kind |-> "add", user |-> obj[c].user, added |-> TRUE]]
    /\ obj' = [obj EXCEPT ![c] = NoObj]
    /\ pc' = [pc EXCEPT ![c] = "idle"]
    /\ UNCHANGED <<now, raise_flag, held, pend, msg_shown, polls,
                   migration, schema, store_err, proxies, next_id>>
    /\ UNCHANGED client

\* a DELETE whose condition is inverted: NOT IN (...)
DeleteRowsNotIn(us) == [u \in (DOMAIN accounts) \cap us |-> accounts[u]]

\* DELETE FROM accounts WHERE username IN (...)
DeleteRows(us) == [u \in (DOMAIN accounts) \ us |-> accounts[u]]

\* delete_accounts(usernames): no statement for an empty list
DeleteAccounts(us) ==
    /\ accounts' = IF us = {} THEN accounts ELSE DeleteRows(us)
    /\ UNCHANGED <<now, raise_flag, pc, held, pend, obj, msg_shown, polls,
                   intact, marked>>
    /\ UNCHANGED ext

\* SELECT DISTINCT f.key FROM accounts, jsonb_each(locks)
LockKeys == UNION {DOMAIN accounts[u].locks : u \in DOMAIN accounts}

\* a count that takes a lock ending now for a lock still held
LocksCountAtNow(q) ==
    Cardinality({u \in DOMAIN accounts :
        q \in DOMAIN accounts[u].locks /\ accounts[u].locks[q] >= now})

\* locks_count(queue): lock present and later than now()
LocksCount(q) ==
    Cardinality({u \in DOMAIN accounts :
        q \in DOMAIN accounts[u].locks /\ accounts[u].locks[q] > now})

\* the row of the second statement of stats(), as a dict
StatsRow(keys) ==
    [kind |-> "stats",
     total |-> Cardinality(DOMAIN accounts),
     active |-> Cardinality({u \in DOMAIN accounts : accounts[u].active}),
     inactive |-> Cardinality({u \in DOMAIN accounts : ~accounts[u].active}),
     locked |-> [k \in keys |-> LocksCount(k)]]

\* stats(), first statement: the queue names that occur in locks
StatsKeys(c) ==
    /\ pc[c] = "idle"
    /\ pc' = [pc EXCEPT ![c] = "stats"]
    /\ out' = [out EXCEPT ![c] = [kind |-> "stats_keys", keys |-> LockKeys]]
    /\ UNCHANGED <<now, accounts, raise_flag, held, pend, obj, msg_shown, polls,
                   intact, marked, migration, schema, store_err, proxies, next_id>>
    /\ UNCHANGED client

\* stats(), second statement: the counts, returned to the caller
StatsCount(c) ==
    /\ pc[c] = "stats"
    /\ pc' = [pc EXCEPT ![c] = "idle"]
    /\ out' = [out EXCEPT ![c] = StatsRow(out[c].keys)]
    /\ UNCHANGED <<now, accounts, raise_flag, held, pend, obj, msg_shown, polls,
                   intact, marked, migration, schema, store_err, proxies, next_id>>
    /\ UNCHANGED client

\* the usernames of the listing, in the order of Python's str comparison
RawOrder == <<"B", "a", "c">>

\* the same usernames in the order of their lower-case forms (a, b, c)
LowerOrder == <<"a", "B", "c">>

\* a sort key that compares the usernames as they are
NameKeyRaw(u) == CHOOSE i \in 1..Len(RawOrder) : RawOrder[i] = u

\* x["username"].lower() as a sort key
NameKey(u) == CHOOSE i \in 1..Len(LowerOrder) : LowerOrder[i] = u

\* datetime(1970, 1, 1): earlier than every last_used
OldTime == 0 - 1

RECURSIVE SumOver(_, _)
\* sum(x.stats.values())
SumOver(m, ks) ==
    IF ks = {} THEN 0
    ELSE LET k == CHOOSE x \in ks : TRUE IN m[k] + SumOver(m, ks \ {k})

\* one AccountInfo item
ItemOf(u) ==
    [username |-> u,
     active |-> accounts[u].active,
     last_used |-> accounts[u].last_used,
     total_req |-> SumOver(accounts[u].stats, DOMAIN accounts[u].stats)]

\* the key of one of the three sorts; True sorts as 1, False as 0
SortKey(kind, x) ==
    IF kind = "name" THEN NameKey(x.username)
    ELSE IF kind = "recency"
         THEN (IF x.total_req > 0
               THEN (IF x.last_used = <<>> THEN OldTime ELSE x.last_used[1])
               ELSE OldTime)
    ELSE (IF x.active THEN 1 ELSE 0)

\* where a stable sort puts x among the already sorted items
InsertAt(sorted, x, kind, rev) ==
    LET n == Cardinality({i \in 1..Len(sorted) :
                 IF rev THEN SortKey(kind, sorted[i]) >= SortKey(kind, x)
                 ELSE SortKey(kind, sorted[i]) <= SortKey(kind, x)})
    IN  SubSeq(sorted, 1, n) \o <<x>> \o SubSeq(sorted, n + 1, Len(sorted))

RECURSIVE Sorted(_, _, _)
\* sorted(items, key=..., reverse=rev): stable, also when reversed
Sorted(items, kind, rev) ==
    IF items = <<>> THEN <<>>
    ELSE InsertAt(Sorted(SubSeq(items, 1, Len(items) - 1), kind, rev),
                  items[Len(items)], kind, rev)

\* the orders in which get_all (SELECT * FROM accounts) may return the rows
RowOrders ==
    {f \in [1..Cardinality(DOMAIN accounts) -> DOMAIN accounts] :
        \A u \in DOMAIN accounts : \E i \in DOMAIN f : f[i] = u}

\* the three sorts of accounts_info
InfoItems(order) ==
    Sorted(Sorted(Sorted([i \in DOMAIN order |-> ItemOf(order[i])],
                         "name", FALSE), "recency", TRUE), "active", TRUE)

\* accounts_info(): get_all, then the items sorted
AccountsInfo(c, order) ==
    /\ pc[c] = "idle"
    /\ order \in RowOrders
    /\ out' = [out EXCEPT ![c] = [kind |-> "info", items |-> InfoItems(order)]]
    /\ UNCHANGED <<now, accounts, raise_flag, pc, held, pend, obj, msg_shown, polls,
                   intact, marked, migration, schema, store_err, proxies, next_id>>
    /\ UNCHANGED client

\* ------------------------------------------------- the lease protocol
\* two accounts, callers that lease and release on one queue
Init == InitWith([Users -> {NewRow(TRUE), NewRow(FALSE)}], {FALSE})

Next ==
    \/ Tick
    \/ \E c \in Callers : GetForQueue(c, "q1")
    \/ \E c \in Callers : ReturnEmpty(c)
    \/ \E c \in Callers, t \in UnlockAts, d \in 0..MaxDelta : LockUntil(c, t, d)
    \/ \E c \in Callers, d \in 0..MaxDelta : Unlock(c, d)
    \/ \E c \in Callers : UnlockStats(c)
    \/ \E c \in Callers, m \in Msgs : MarkInactive(c, m)
    \/ \E u \in Users, b \in BOOLEAN : SetActive(u, b)

Spec == Init /\ [][Next]_vars

\* ------------------------------------------- release on several queues
\* two active accounts, one caller that leases and releases on two queues
InitQueues == InitWith([Users -> {NewRow(TRUE)}], {FALSE})

NextQueues ==
    \/ Tick
    \/ \E q \in Queues : GetForQueue("c1", q)
    \/ ReturnEmpty("c1")
    \/ \E t \in UnlockAts, d \in 0..MaxDelta : LockUntil("c1", t, d)
    \/ \E d \in 0..MaxDelta : Unlock("c1", d)
    \/ UnlockStats("c1")

SpecQueues == InitQueues /\ [][NextQueues]_vars

\* ------------------------------------------------- deactivation and login
\* one account, callers that lease it, deactivate it, release it and log it in
InitLogin == InitWith([{"u1"} -> {NewRow(TRUE), NewRow(FALSE)}], {FALSE})

NextLogin ==
    \/ Tick
    \/ \E c \in Callers : GetForQueue(c, "q1")
    \/ \E c \in Callers : ReturnEmpty(c)
    \/ \E c \in Callers : Unlock(c, 0)
    \/ \E c \in Callers, m \in Msgs : MarkInactive(c, m)
    \/ \E u \in Users, b \in BOOLEAN : SetActive(u, b)
    \/ \E c \in Callers, u \in Users : LoginRead(c, u)
    \/ \E c \in Callers, ok \in BOOLEAN : LoginSave(c, ok)

SpecLogin == InitLogin /\ [][NextLogin]_vars

\* ----------------------------------------------- get_for_queue_or_wait
\* callers that wait for an account on one queue, then release it or
\* deactivate it, with either setting of raise_when_no_account
InitWait == InitWith([Users -> {NewRow(TRUE), NewRow(FALSE)}], BOOLEAN)

NextWait ==
    \/ Tick
    \/ \E c \in Callers : WaitStart(c, "q1")
    \/ \E c \in Callers : WaitAttempt(c)
    \/ \E c \in Callers : WaitNextAvailable(c)
    \/ \E c \in Callers : WaitSleep(c)
    \/ \E c \in Callers : WaitOver(c)
    \/ \E c \in Callers, t \in UnlockAts : LockUntil(c, t, 1)
    \/ \E c \in Callers : Unlock(c, 0)
    \/ \E c \in Callers, m \in Msgs : MarkInactive(c, m)
    \/ \E u \in Users, b \in BOOLEAN : SetActive(u, b)

SpecWait == InitWait /\ [][NextWait]_vars

\* ------------------------------------------------------ a single waiter
\* one caller waits on q1; the other leases and releases only while nobody
\* waits; no account is deactivated.  The loop of the waiter and the clock
\* keep running (asyncio resumes a coroutine whose await is over).
LastTick == (MaxTime \div TickStep) * TickStep

Waiting(c) == pc[c] \in {"w_attempt", "w_nat", "w_sleep"}

QuietLease == ~Waiting("c1") /\ GetForQueue("c2", "q1")

QuietRelease(t) == ~Waiting("c1") /\ LockUntil("c2", t, 0)

InitLive == InitWith([Users -> {NewRow(TRUE), NewRow(FALSE)}], {FALSE})

NextLive ==
    \/ Tick
    \/ QuietLease
    \/ ReturnEmpty("c2")
    \/ \E t \in UnlockAts : QuietRelease(t)
    \/ WaitStart("c1", "q1")
    \/ WaitAttempt("c1")
    \/ WaitNextAvailable("c1")
    \/ WaitSleep("c1")
    \/ WaitOver("c1")
    \/ Unlock("c1", 0)

SpecLive ==
    /\ InitLive /\ [][NextLive]_vars
    /\ WF_vars(Tick)
    /\ WF_vars(WaitAttempt("c1"))
    /\ WF_vars(WaitNextAvailable("c1"))
    /\ WF_vars(WaitSleep("c1"))

\* ------------------------------------------------ a store that may fail
\* the process has not yet checked the schema; any statement may fail
InitStore ==
    /\ InitPool([Users -> {NewRow(TRUE), NewRow(FALSE)}], {FALSE})
    /\ migration = "unchecked"
    /\ schema \in BOOLEAN
    /\ store_err = [c \in Callers |-> FALSE]
    /\ proxies = EmptyMap
    /\ next_id = 1
    /\ out = [c \in Callers |-> NoOut]
    /\ cl = [c \in Callers |-> NoReq]
    /\ proxy_id = [u \in Users |-> 0]

NextStore ==
    \/ Tick
    \/ \E c \in Callers : WaitStart(c, "q1")
    \/ \E c \in Callers, cf \in BOOLEAN, sf \in BOOLEAN : WaitAttemptStore(c, cf, sf)
    \/ \E c \in Callers : WaitNextAvailable(c)
    \/ \E c \in Callers : WaitSleep(c)
    \/ \E c \in Callers : WaitOver(c)
    \/ \E c \in Callers : WaitFailed(c)
    \/ \E c \in Callers : Unlock(c, 0)

SpecStore == InitStore /\ [][NextStore]_vars

\* ------------------------------------------------- adding and deleting
\* the table starts empty; the account u1 is added, deleted, activated,
\* logged in, leased and released
InitAdd == InitWith({EmptyMap}, {FALSE})

NextAdd ==
    \/ \E c \in Callers, pw \in Passwords, ck \in CookieJars :
          AddSelect(c, "u1", pw, ck, NULL)
    \/ \E c \in Callers : AddSave(c)
    \/ \E us \in SUBSET {"u1"} : DeleteAccounts(us)
    \/ \E b \in BOOLEAN : SetActive("u1", b)
    \/ \E c \in Callers : LoginRead(c, "u1")
    \/ \E c \in Callers, ok \in BOOLEAN : LoginSave(c, ok)
    \/ \E c \in Callers : GetForQueue(c, "q1")
    \/ \E c \in Callers : ReturnEmpty(c)
    \/ \E c \in Callers : Unlock(c, 0)

SpecAdd == InitAdd /\ [][NextAdd]_vars

\* ---------------------------------------------------- deleting accounts
\* two stored accounts in use by one caller; usernames are deleted in any
\* combination, among them one that was never stored
DelNames == Users \cup {"u3"}

InitAdmin == InitWith([Users -> {NewRow(TRUE), NewRow(FALSE)}], {FALSE})

NextAdmin ==
    \/ Tick
    \/ \E us \in SUBSET DelNames : DeleteAccounts(us)
    \/ \E u \in Users, b \in BOOLEAN : SetActive(u, b)
    \/ GetForQueue("c1", "q1")
    \/ ReturnEmpty("c1")
    \/ \E t \in UnlockAts : LockUntil("c1", t, 1)

SpecAdmin == InitAdmin /\ [][NextAdmin]_vars

\* ----------------------------------------------------------- reporting
\* c1 asks for stats() while c2 leases and releases on both queues
InitStats == InitWith([Users -> {NewRow(TRUE), NewRow(FALSE)}], {FALSE})

NextStats ==
    \/ Tick
    \/ StatsKeys("c1")
    \/ StatsCount("c1")
    \/ \E q \in Queues : GetForQueue("c2", q)
    \/ ReturnEmpty("c2")
    \/ \E t \in UnlockAts : LockUntil("c2", t, 0)

SpecStats == InitStats /\ [][NextStats]_vars

\* ------------------------------------------------------ accounts_info
\* the listing is a function of the stored rows: the tables are drawn from
\* the names a, B, c and from rows that were never used, were leased, or
\* were released with requests counted
InfoNames == {"a", "B", "c"}

UsedRows ==
    {[NewRow(act) EXCEPT !.last_used = lu, !.stats = st, !.locks = lk] :
        act \in BOOLEAN,
        lu \in {<<TickStep>>, <<2 * TickStep>>},
        st \in {EmptyMap, [q \in {"q1"} |-> 1], [q \in Queues |-> 1]},
        lk \in {EmptyMap}}

InfoRows == {NewRow(TRUE), NewRow(FALSE)} \cup UsedRows

InitInfo ==
    InitWith(UNION {[ns -> InfoRows] : ns \in SUBSET InfoNames}, {FALSE})

NextInfo ==
    \E order \in UNION {[1..n -> InfoNames] : n \in 0..Cardinality(InfoNames)} :
        AccountsInfo("c1", order)

SpecInfo == InitInfo /\ [][NextInfo]_vars

\* ------------------------------------------------------------- proxies
\* the proxies table starts empty; urls are ensured one by one, in bulk and
\* by add_account, proxies are handed out and marked failed
UrlLists == UNION {[1..n -> Urls] : n \in 0..2}

InitProxy == InitWith({EmptyMap}, {FALSE})

NextProxy ==
    \/ Tick
    \/ \E url \in Urls : Ensure(url)
    \/ \E urls \in UrlLists : BulkLoad(urls)
    \/ \E c \in Callers : GetActive(c)
    \/ \E id \in 1..MaxId : MarkFailed(id)
    \/ \E url \in Urls : AddSelect("c1", "u1", "p1", {"ct0"}, url)
    \/ AddEnsure("c1")
    \/ AddSave("c1")

SpecProxy == InitProxy /\ [][NextProxy]_vars

\* ------------------------------------------------------ the Queue Client
\* what the transport may answer to one attempt
Outcomes == {"ok", "ok_reset", "proxy_error", "auth_error"}

\* a client that retries after every proxy failure
AfterProxyErrorAgain(tries) == "mark_failed"

\* PROXY_RETRY is taken at most once per request: the first proxy failure
\* goes on to mark_failed, the second is surfaced
AfterProxyError(tries) == IF tries >= 2 THEN "surface" ELSE "mark_failed"

\* a client that falls back on the proxy that has just failed
RetryChoicesOrSame(failed) == IF ActiveIds = {} THEN {failed} ELSE ActiveIds

\* "select a new active proxy": what get_active() may return
RetryChoices(failed) == ActiveIds

\* execute(request), step 1: lease_for_queue_or_wait(queue)
ClientAcquire(c, q) ==
    /\ cl[c].stage = "none"
    /\ WaitStart(c, q)

\* step 2: the account's own proxy if it has one, otherwise get_active()
ClientResolve(c) ==
    /\ pc[c] = "holding"
    /\ cl[c].stage = "none"
    /\ LET own == proxy_id[held[c].user]
       IN  \E i \in (IF own # 0 THEN {own} ELSE IF ActiveIds = {} THEN {0} ELSE ActiveIds) :
              cl' = [cl EXCEPT ![c] = [NoReq EXCEPT !.stage = "request", !.proxy = i]]
    /\ UNCHANGED <<now, accounts, raise_flag, pc, held, pend, obj, msg_shown, polls,
                   intact, marked, migration, schema, store_err, proxies, next_id,
                   out, proxy_id>>

\* step 3: the request is issued and the transport answers
ClientAttempt(c, o) ==
    /\ pc[c] = "holding"
    /\ cl[c].stage = "request"
    /\ o = "proxy_error" => cl[c].proxy # 0
    /\ cl' = [cl EXCEPT ![c].tries = @ + 1,
                        ![c].result = IF o = "ok_reset" THEN "ok" ELSE o,
                        ![c].stage = IF o = "ok" THEN "release_now"
                                     ELSE IF o = "ok_reset" THEN "release_reset"
                                     ELSE IF o = "auth_error" THEN "deactivate"
                                     ELSE AfterProxyError(cl[c].tries + 1)]
    /\ UNCHANGED <<now, accounts, raise_flag, pc, held, pend, obj, msg_shown, polls,
                   intact, marked, migration, schema, store_err, proxies, next_id,
                   out, proxy_id>>

\* step 4: mark_failed(the proxy in use)
ClientMarkFailed(c) ==
    /\ cl[c].stage = "mark_failed"
    /\ proxies[cl[c].proxy].fail_count < MaxFail
    /\ proxies' = [proxies EXCEPT ![cl[c].proxy] = MarkFailedRow(@, now)]
    /\ cl' = [cl EXCEPT ![c].stage = "reselect", ![c].failed = cl[c].proxy]
    /\ UNCHANGED <<now, accounts, raise_flag, pc, held, pend, obj, msg_shown, polls,
                   intact, marked, migration, schema, store_err, next_id, out, proxy_id>>

\* step 4: a new active proxy is selected; with none the failure is surfaced
ClientReselect(c) ==
    /\ cl[c].stage = "reselect"
    /\ IF RetryChoices(cl[c].failed) = {}
       THEN cl' = [cl EXCEPT ![c].stage = "surface"]
       ELSE \E i \in RetryChoices(cl[c].failed) :
              cl' = [cl EXCEPT ![c].stage = "persist", ![c].proxy = i]
    /\ UNCHANGED <<now, accounts, raise_flag, pc, held, pend, obj, msg_shown, polls,
                   intact, marked, migration, schema, store_err, proxies, next_id,
                   out, proxy_id>>

\* step 4: the new proxy reference is stored on the account, then the
\* request is issued again
ClientPersist(c) ==
    /\ cl[c].stage = "persist"
    /\ proxy_id' = [proxy_id EXCEPT ![held[c].user] = cl[c].proxy]
    /\ cl' = [cl EXCEPT ![c].stage = "request"]
    /\ UNCHANGED <<now, accounts, raise_flag, pc, held, pend, obj, msg_shown, polls,
                   intact, marked, migration, schema, store_err, proxies, next_id, out>>

\* step 5, no rate-limit-reset signal: unlock(username, queue, 1)
ClientUnlock(c) ==
    /\ cl[c].stage = "release_now"
    /\ Unlock(c, 1)

\* step 5, rate-limit-reset signal: lock_until(username, queue, reset, 1)
ClientLockUntil(c) ==
    /\ cl[c].stage = "release_reset"
    /\ LockUntil(c, now + ResetAfter, 1)

\* step 6: mark_inactive(username, reason); the lock is left as it is
ClientMarkInactive(c, msg) ==
    /\ cl[c].stage = "deactivate"
    /\ MarkInactive(c, msg)

\* a surfaced proxy failure ends the request; the design does not say what
\* becomes of the lease: it is released unused or left to expire
ClientSurface(c) ==
    /\ cl[c].stage = "surface"
    /\ pc[c] = "holding"
    /\ \/ Unlock(c, 0)
       \/ /\ pc' = [pc EXCEPT ![c] = "idle"]
          /\ held' = [held EXCEPT ![c] = NoLease]
          /\ UNCHANGED <<now, accounts, raise_flag, pend, obj, msg_shown, polls,
                         intact, marked>>
          /\ UNCHANGED ext

\* the response, or the failure, reaches the caller of execute
ClientReturn(c) ==
    /\ pc[c] = "idle"
    /\ cl[c].stage \in {"release_now", "release_reset", "deactivate", "surface"}
    /\ out' = [out EXCEPT ![c] = [kind |-> "response", result |-> cl[c].result,
                                  tries |-> cl[c].tries]]
    /\ cl' = [cl EXCEPT ![c] = NoReq]
    /\ UNCHANGED <<now, accounts, raise_flag, pc, held, pend, obj, msg_shown, polls,
                   intact, marked, migration, schema, store_err, proxies, next_id,
                   proxy_id>>

\* the proxies that were ensured before the clients start
StoredProxies(n) == [i \in 1..n |-> NewProxy(IF i = 1 THEN "x" ELSE "y")]

\* a client of queue q1 with the fail-fast policy, over one active account
\* and one or two proxies, which other clients may mark failed
InitClient ==
    /\ InitPool([{"u1"} -> {NewRow(TRUE)}], {TRUE})
    /\ migration = "ok"
    /\ schema = TRUE
    /\ store_err = [c \in Callers |-> FALSE]
    /\ \E n \in 1..2 : proxies = StoredProxies(n) /\ next_id = n + 1
    /\ out = [c \in Callers |-> NoOut]
    /\ cl = [c \in Callers |-> NoReq]
    /\ proxy_id = [u \in Users |-> 0]

NextClient ==
    \/ Tick
    \/ ClientAcquire("c1", "q1")
    \/ WaitAttempt("c1")
    \/ WaitOver("c1")
    \/ ClientResolve("c1")
    \/ \E o \in Outcomes : ClientAttempt("c1", o)
    \/ ClientMarkFailed("c1")
    \/ ClientReselect("c1")
    \/ ClientPersist("c1")
    \/ ClientUnlock("c1")
    \/ UnlockStats("c1")
    \/ ClientLockUntil("c1")
    \/ \E m \in Msgs : ClientMarkInactive("c1", m)
    \/ ClientSurface("c1")
    \/ ClientReturn("c1")
    \/ \E id \in 1..MaxId : MarkFailed(id)

SpecClient == InitClient /\ [][NextClient]_vars

\* a client of queue q1 over one account, while the account is logged in
\* by another caller
InitClientLogin ==
    /\ InitPool([{"u1"} -> {NewRow(TRUE)}], {TRUE})
    /\ migration = "ok"
    /\ schema = TRUE
    /\ store_err = [c \in Callers |-> FALSE]
    /\ proxies = StoredProxies(1) /\ next_id = 2
    /\ out = [c \in Callers |-> NoOut]
    /\ cl = [c \in Callers |-> NoReq]
    /\ proxy_id = [u \in Users |-> 0]

NextClientLogin ==
    \/ Tick
    \/ ClientAcquire("c1", "q1")
    \/ WaitAttempt("c1")
    \/ WaitOver("c1")
    \/ ClientResolve("c1")
    \/ \E o \in {"ok", "auth_error"} : ClientAttempt("c1", o)
    \/ ClientUnlock("c1")
    \/ UnlockStats("c1")
    \/ \E m \in Msgs : ClientMarkInactive("c1", m)
    \/ ClientReturn("c1")
    \/ LoginRead("c2", "u1")
    \/ \E ok \in BOOLEAN : LoginSave("c2", ok)

SpecClientLogin == InitClientLogin /\ [][NextClientLogin]_vars

\* ---------------------------------------------------- a wait given up
\* c1 waits for an account of q1 and may give up; c2 leases and releases
InitQuit == InitWith([Users -> {NewRow(TRUE), NewRow(FALSE)}], {FALSE})

NextQuit ==
    \/ Tick
    \/ WaitStart("c1", "q1")
    \/ WaitAttempt("c1")
    \/ WaitNextAvailable("c1")
    \/ WaitSleep("c1")
    \/ WaitOver("c1")
    \/ WaitAbandon("c1")
    \/ Unlock("c1", 0)
    \/ GetForQueue("c2", "q1")
    \/ ReturnEmpty("c2")
    \/ \E t \in UnlockAts : LockUntil("c2", t, 1)

SpecQuit == InitQuit /\ [][NextQuit]_vars

\* ------------------------------------------------------- reset_locks
\* the text between the quotes of the statement of reset_locks: the string
\* is not an f-string, so its doubled braces reach the store as written
ResetLocksLiteral == "{{}}"

\* jsonb input of the store: '{}' is the empty object, '{{}}' is rejected
\* (invalid input syntax for type json)
JsonbIn(txt) ==
    IF txt = "{}" THEN [ok |-> TRUE, val |-> EmptyMap]
    ELSE [ok |-> FALSE, val |-> EmptyMap]

\* reset_locks(): UPDATE accounts SET locks = <literal>::jsonb; a statement
\* the store rejects is rolled back and its error is raised to the caller
ResetLocks(c) ==
    /\ pc[c] = "idle"
    /\ LET r == JsonbIn(ResetLocksLiteral)
       IN  /\ accounts' = IF r.ok
                          THEN [u \in DOMAIN accounts |-> [accounts[u] EXCEPT !.locks = r.val]]
                          ELSE accounts
           /\ intact' = IF r.ok THEN [d \in Callers |-> FALSE] ELSE intact
           /\ out' = [out EXCEPT ![c] = [kind |-> "reset", ok |-> r.ok]]
    /\ UNCHANGED <<now, raise_flag, pc, held, pend, obj, msg_shown, polls, marked,
                   migration, schema, store_err, proxies, next_id>>
    /\ UNCHANGED client

\* accounts are leased and released to a quota reset, and the locks are reset
InitReset == InitWith([Users -> {NewRow(TRUE), NewRow(FALSE)}], {FALSE})

NextReset ==
    \/ Tick
    \/ \E c \in Callers, q \in Queues : GetForQueue(c, q)
    \/ \E c \in Callers : ReturnEmpty(c)
    \/ \E c \in Callers : LockUntil(c, now + ResetAfter, 1)
    \/ ResetLocks("c1")

SpecReset == InitReset /\ [][NextReset]_vars

\* ------------------------------------------- one account, two queues
\* two callers work on the same account, c1 for q1 and c2 for q2
InitPair == InitWith([{"u1"} -> {NewRow(TRUE)}], {FALSE})

NextPair ==
    \/ Tick
    \/ GetForQueue("c1", "q1")
    \/ GetForQueue("c2", "q2")
    \/ \E c \in Callers : ReturnEmpty(c)
    \/ \E c \in Callers, t \in UnlockAts, d \in 0..MaxDelta : LockUntil(c, t, d)
    \/ \E c \in Callers, d \in 0..MaxDelta : Unlock(c, d)
    \/ \E c \in Callers : UnlockStats(c)

SpecPair == InitPair /\ [][NextPair]_vars

\* ------------------------------------------------- Account.make_client
\* proxies = [proxy, os.getenv("TWS_PROXY"), self.proxy]; the first that is
\* not None, or None
MakeClientProxy(proxy, env, own) ==
    IF proxy # NULL THEN proxy ELSE IF env # NULL THEN env ELSE own

\* account.make_client(proxy) on the Account of u, in a process whose
\* environment holds TWS_PROXY = env: the proxy the AsyncClient is built with
MakeClient(c, u, proxy, env) ==
    /\ pc[c] = "idle"
    /\ u \in DOMAIN accounts
    /\ out' = [out EXCEPT ![c] =
                  [kind |-> "client", user |-> u, arg |-> proxy, env |-> env,
                   own |-> accounts[u].proxy,
                   proxy |-> MakeClientProxy(proxy, env, accounts[u].proxy)]]
    /\ UNCHANGED <<now, accounts, raise_flag, pc, held, pend, obj, msg_shown, polls,
                   intact, marked, migration, schema, store_err, proxies, next_id>>
    /\ UNCHANGED client

\* one account, with or without a proxy of its own
InitTransport ==
    InitWith([{"u1"} -> {AccountRow("p1", {}, px) : px \in {NULL} \cup Urls}], {FALSE})

NextTransport ==
    \E c \in Callers, u \in Users, proxy \in {NULL} \cup Urls, env \in {NULL} \cup Urls :
        MakeClient(c, u, proxy, env)

SpecTransport == InitTransport /\ [][NextTransport]_vars

\* ------------------------------------------- two callers on one account
\* the lease protocol on a single active account: both callers lease and
\* release the same (account, queue)
InitCount == InitWith([{"u1"} -> {NewRow(TRUE)}], {FALSE})

SpecCount == InitCount /\ [][Next]_vars

\* ------------------------------------------------------------- the claims
Holds(c) == held[c].user # "none"

SameLease(c, d) ==
    /\ Holds(c) /\ Holds(d)
    /\ held[c].user = held[d].user
    /\ held[c].queue = held[d].queue

\* a step in which c's get_for_queue returns an account
Granted(c) == pc[c] \in {"idle", "w_attempt"} /\ pc'[c] = "holding"

\* a step in which c's get_for_queue returns None
Refused(c) == pc[c] = "idle" /\ pc'[c] = "empty"

\* C1: of the callers leasing on a queue, no two are returned the same
\* account while the lock the lease wrote is unexpired (and no release or
\* unlock has rewritten it).
C1_AtMostOneLease ==
    \A c, d \in Callers :
        (c # d /\ SameLease(c, d) /\ intact[c] /\ intact[d])
            => ~(held[c].until >= now /\ held[d].until >= now)

\* C1's case: c holds an unexpired lease and d, leasing on the same queue,
\* was returned None although the account is active
C1_Witness ==
    \E c, d \in Callers :
        /\ c # d /\ Holds(c) /\ intact[c] /\ held[c].until >= now
        /\ accounts[held[c].user].active
        /\ pc[d] = "empty" /\ pend[d].queue = held[c].queue

\* C2: get_for_queue(q) returns an account only if, in the state it runs
\* in, the account is active and its lock for q is absent or earlier than
\* now; and it returns None only if no account satisfies that.
C2_Leasability ==
    [][\A c \in Callers :
          /\ Granted(c) =>
                LET u == held'[c].user
                    q == held'[c].queue
                IN  /\ u \in DOMAIN accounts
                    /\ accounts[u].active
                    /\ q \notin DOMAIN accounts[u].locks \/ accounts[u].locks[q] < now
          /\ Refused(c) =>
                \A u \in DOMAIN accounts :
                    ~ /\ accounts[u].active
                      /\ \/ pend'[c].queue \notin DOMAIN accounts[u].locks
                         \/ accounts[u].locks[pend'[c].queue] < now
      ]_vars

\* C2's case: one caller was returned None while another holds the only
\* active account, leased after the clock had advanced
C2_Witness ==
    \E c, d \in Callers :
        /\ pc[c] = "empty" /\ Holds(d) /\ held[d].at > 0
        /\ \A u \in DOMAIN accounts : accounts[u].active <=> u = held[d].user

\* C3: the step that returns account A for queue Q leaves locks[A][Q] =
\* now + LEASE_TTL, so A is not leasable for Q; and while that time has not
\* passed and no release or unlock has rewritten the lock, it stays so.
C3_LeaseSetsLock ==
    /\ [][\A c \in Callers :
             Granted(c) =>
                LET u == held'[c].user
                    q == held'[c].queue
                IN  /\ q \in DOMAIN accounts'[u].locks
                    /\ accounts'[u].locks[q] = now + LEASE_TTL
                    /\ held'[c].until = now + LEASE_TTL
         ]_vars
    /\ [](\A c \in Callers :
             (Holds(c) /\ intact[c] /\ now <= held[c].until) =>
                LET u == held[c].user
                    q == held[c].queue
                IN  /\ q \in DOMAIN accounts[u].locks
                    /\ accounts[u].locks[q] = held[c].until
                    /\ ~(accounts[u].locks[q] < now))

\* C3's case: a lease is held, its lock is in the store and still running
C3_Witness ==
    \E c \in Callers :
        /\ Holds(c) /\ intact[c] /\ now > held[c].at /\ now <= held[c].until
        /\ accounts[held[c].user].locks[held[c].queue] = held[c].at + LEASE_TTL

\* C4: at every moment at most one caller holds an unexpired lease on a
\* given (account, queue): no release or unlock by another caller lets the
\* account be leased again before the current lease expires or is released
\* by its holder.
C4_OneHolder ==
    \A c, d \in Callers :
        (c # d /\ SameLease(c, d))
            => ~(held[c].until >= now /\ held[d].until >= now)

\* C5: a lease that is never released stops blocking: once now is later
\* than LEASE_TTL after the lease was taken, and the account is still
\* active, a get_for_queue on that queue returns an account, and it returns
\* this one unless one that sorts before it is leasable.
C5_SelfHeals ==
    [][\A c, d \in Callers :
          ( /\ pc[d] = "idle" /\ pc'[d] \in {"holding", "empty"}
            /\ Holds(c) /\ intact[c]
            /\ held[c].queue = IF pc'[d] = "empty" THEN pend'[d].queue
                               ELSE held'[d].queue
            /\ accounts[held[c].user].active
            /\ held[c].queue \in DOMAIN accounts[held[c].user].locks
            /\ accounts[held[c].user].locks[held[c].queue] = held[c].until
            /\ now > held[c].at + LEASE_TTL )
          => /\ pc'[d] = "holding"
             /\ Rank(held'[d].user) <= Rank(held[c].user)
      ]_vars

\* C5's case: d was leased the account that c leased earlier and never
\* released
C5_Witness ==
    \E c, d \in Callers :
        /\ c # d /\ SameLease(c, d) /\ intact[c]
        /\ held[d].at > held[c].at + LEASE_TTL

\* the same keys with the same values, outside key q
SameExcept(m1, m2, q) ==
    /\ (DOMAIN m1) \ {q} = (DOMAIN m2) \ {q}
    /\ \A k \in (DOMAIN m1) \ {q} : m1[k] = m2[k]

\* C6: lock_until(username, q, unlock_at, delta) sets locks[q] = unlock_at,
\* stats[q] = previous value (0 if absent) + delta and last_used = now, and
\* changes nothing else of that account and no other account.
C6_Release ==
    [][\A c \in Callers, t \in UnlockAts, d \in 0..MaxDelta :
          LockUntil(c, t, d) =>
            LET u == held[c].user
                q == held[c].queue
                old == accounts[u]
                new == accounts'[u]
            IN  /\ DOMAIN accounts' = DOMAIN accounts
                /\ q \in DOMAIN new.locks /\ new.locks[q] = t
                /\ q \in DOMAIN new.stats
                /\ new.stats[q] = (IF q \in DOMAIN old.stats THEN old.stats[q] ELSE 0) + d
                /\ new.last_used = <<now>>
                /\ SameExcept(new.locks, old.locks, q)
                /\ SameExcept(new.stats, old.stats, q)
                /\ new.active = old.active /\ new.error_msg = old.error_msg
                /\ \A v \in (DOMAIN accounts) \ {u} : accounts'[v] = accounts[v]
      ]_vars

\* C6's case: an account released to a quota reset with one request counted,
\* while it carries a lock on another queue and the other account is in use
C6_Witness ==
    \E u \in DOMAIN accounts, q \in Queues, k \in Queues :
        /\ k # q
        /\ q \in DOMAIN accounts[u].stats /\ accounts[u].stats[q] = 1
        /\ q \in DOMAIN accounts[u].locks
        /\ accounts[u].locks[q] = accounts[u].last_used[1] + ResetAfter
        /\ k \in DOMAIN accounts[u].locks
        /\ \E v \in (DOMAIN accounts) \ {u} : accounts[v].locks # EmptyMap

\* C7 as stated: unlock(username, q, delta) leaves the row that
\* lock_until(username, q, now, delta) leaves.
C7_UnlockIsReleaseNow ==
    \A u \in DOMAIN accounts, q \in Queues, d \in 0..MaxDelta :
        UnlockWhole(accounts[u], q, d, now) = LockUntilRow(accounts[u], q, now, d, now)

\* C7, amended: unlock gives the same last_used, the same other locks and
\* the same request counts as lock_until with unlock_at = now, but it
\* removes locks[q] where lock_until sets it to now (so an active account is
\* leasable for q at once after unlock, and only after the clock has moved
\* after lock_until), and with delta = 0 it leaves stats untouched where
\* lock_until creates stats[q] = 0.
C7_UnlockVsReleaseNow ==
    \A u \in DOMAIN accounts, q \in Queues, d \in 0..MaxDelta :
        LET U == UnlockWhole(accounts[u], q, d, now)
            R == LockUntilRow(accounts[u], q, now, d, now)
        IN  /\ U.last_used = R.last_used /\ U.last_used = <<now>>
            /\ U.active = R.active /\ U.error_msg = R.error_msg
            /\ SameExcept(U.locks, R.locks, q)
            /\ q \notin DOMAIN U.locks
            /\ q \in DOMAIN R.locks /\ R.locks[q] = now
            /\ \A k \in Queues :
                  (IF k \in DOMAIN U.stats THEN U.stats[k] ELSE 0)
                    = (IF k \in DOMAIN R.stats THEN R.stats[k] ELSE 0)
            /\ d > 0 => U.stats = R.stats
            /\ d = 0 => U.stats = accounts[u].stats /\ q \in DOMAIN R.stats

\* C7's case: an unlock with a request counted has run on a leased account
C7_Witness ==
    \E u \in DOMAIN accounts, q \in Queues :
        /\ pc["c1"] = "idle"
        /\ q \in DOMAIN accounts[u].stats /\ accounts[u].stats[q] = 1
        /\ q \notin DOMAIN accounts[u].locks
        /\ accounts[u].last_used = <<now>> /\ now > 0

\* C8: mark_inactive(username, error_msg) leaves active = false and the
\* message recorded, and from then on no get_for_queue returns the account
\* until set_active(username, true) or a successful login.
C8_InactiveUntilReactivated ==
    [][/\ \A c \in Callers, m \in Msgs :
             MarkInactive(c, m) =>
                /\ accounts'[held[c].user].active = FALSE
                /\ accounts'[held[c].user].error_msg = m
       /\ \A c \in Callers : Granted(c) => ~marked[held'[c].user]
      ]_vars

\* C9: with raise_when_no_account set, get_for_queue_or_wait raises after
\* its first failed attempt: it never asks next_available_at, never sleeps,
\* never returns None and never makes a second attempt.
C9_FailFast ==
    raise_flag =>
        \A c \in Callers :
            /\ pc[c] \notin {"w_nat", "w_sleep", "w_none"}
            /\ pc[c] = "w_attempt" => polls[c] = 0
            /\ pc[c] = "w_raised" => polls[c] = 1

\* C9's case: the wait has raised with no active account in the pool
C9_Witness ==
    /\ raise_flag
    /\ \E c \in Callers : pc[c] = "w_raised" /\ polls[c] = 1
    /\ \A u \in DOMAIN accounts : ~accounts[u].active

\* C10: with raise_when_no_account off, get_for_queue_or_wait does not go
\* (back) to sleep when there is no active account: it stops and returns
\* None.
C10_StopsWithoutActive ==
    [][\A c \in Callers :
          (~raise_flag /\ pc[c] # "w_sleep" /\ pc'[c] = "w_sleep")
             => \E u \in DOMAIN accounts : accounts[u].active
      ]_vars

\* C11: with fail-fast off a single waiter of get_for_queue_or_wait ends up
\* with an account whenever some account is active and the clock can pass
\* its lock for the queue; and the wait returns an account only through a
\* successful lease: the account was eligible and is now locked for the
\* queue until now + LEASE_TTL, in the caller's name.
C11_WaitEnds ==
    /\ [][\A c \in Callers :
            (pc[c] = "w_attempt" /\ pc'[c] = "holding") =>
               LET u == held'[c].user
                   q == pend[c].queue
               IN  /\ u \in DOMAIN accounts
                   /\ Eligible(accounts[u], q, now)
                   /\ held'[c].queue = q
                   /\ accounts'[u].locks[q] = now + LEASE_TTL
                   /\ held'[c].until = now + LEASE_TTL
         ]_vars
    /\ \A u \in Users :
          (/\ Waiting("c1")
           /\ u \in DOMAIN accounts /\ accounts[u].active
           /\ Coalesce0(accounts[u].locks, "q1") < LastTick)
             ~> (pc["c1"] = "holding")

\* C11's case: the waiter holds an account after it slept at least once,
\* while the other caller still holds the other account
C11_Witness ==
    /\ pc["c1"] = "holding" /\ polls["c1"] >= 2
    /\ held["c1"].at > 0
    /\ pc["c2"] = "holding"

\* C12: a store error raised during a lease attempt of
\* get_for_queue_or_wait ends the call with that error: the step in which
\* the error is raised leaves the call ended by the error, not running on.
C12_StoreErrorSurfaced ==
    [][\A c \in Callers :
          (~store_err[c] /\ store_err'[c]) => pc'[c] = "w_error"
      ]_vars

\* C12, amended: an error of the store raised by the statement of a lease
\* attempt (or a MigrationError) ends the call with the error and leaves
\* the accounts as they were; the only error of the store that a lease
\* attempt does not surface is one met by the schema probe that
\* check_migrations runs once per process, after which the statement of
\* the attempt is run all the same.
C12_StatementErrorSurfaced ==
    /\ [][\A c \in Callers, cf \in BOOLEAN :
            WaitAttemptStore(c, cf, TRUE) =>
               pc'[c] = "w_error" /\ accounts' = accounts /\ held' = held
         ]_vars
    /\ [][\A c \in Callers :
            (~store_err[c] /\ store_err'[c] /\ pc'[c] # "w_error") =>
               migration = "unchecked" /\ migration' = "ok"
         ]_vars
    /\ [](migration = "missing" => ~schema)

\* C12's case: the statement of a later attempt failed, after the call had
\* already polled, in a store whose schema is in place and was checked
C12_Witness ==
    \E c \in Callers :
        /\ pc[c] = "w_error" /\ polls[c] >= 1
        /\ schema /\ migration = "ok"
        /\ \E u \in DOMAIN accounts : accounts[u].active

\* C13: add_account for a username that is already stored is a no-op: the
\* call is over after its lookup, no row is added or changed (password,
\* active, locks, stats, cookies of the stored row stay), and nothing is
\* raised.
C13_IdempotentAdd ==
    [][\A c \in Callers, pw \in Passwords, ck \in CookieJars :
          ("u1" \in DOMAIN accounts /\ AddSelect(c, "u1", pw, ck, NULL)) =>
             /\ accounts' = accounts
             /\ pc'[c] = "idle"
             /\ out'[c] = [kind |-> "add", user |-> "u1", added |-> FALSE]
      ]_vars

\* C13's case: a second add found the account, which carries a lease and
\* the password of the first add
C13_Witness ==
    \E c \in Callers :
        /\ out[c] = [kind |-> "add", user |-> "u1", added |-> FALSE]
        /\ "u1" \in DOMAIN accounts
        /\ accounts["u1"].password = "p2"
        /\ accounts["u1"].locks # EmptyMap

\* C14: add_account stores an account with empty locks and stats, active
\* exactly when its cookies hold ct0; and an account added without ct0 is
\* not returned by get_for_queue until a login succeeds or set_active
\* makes it active.
C14_AddedInactive ==
    /\ [][\A c \in Callers :
            AddSave(c) =>
               LET r == accounts'[obj[c].user]
               IN  /\ r.locks = EmptyMap /\ r.stats = EmptyMap
                   /\ r.active = ("ct0" \in r.cookies)
         ]_vars
    /\ [][\A c \in Callers : Granted(c) => ~marked[held'[c].user]]_vars

\* C15: delete_accounts(U) removes the stored accounts whose username is
\* in U and no other, and leaves every remaining row as it was; a U of
\* usernames that are not stored, and the empty U, change nothing.
C15_DeleteExactly ==
    [][\A us \in SUBSET DelNames :
          DeleteAccounts(us) =>
             /\ DOMAIN accounts' = (DOMAIN accounts) \ us
             /\ \A u \in DOMAIN accounts' : accounts'[u] = accounts[u]
             /\ (us \cap DOMAIN accounts = {}) => accounts' = accounts
      ]_vars

\* C15's case: u1 was deleted; u2 is left with its lock and its count
C15_Witness ==
    /\ DOMAIN accounts = {"u2"}
    /\ accounts["u2"].locks # EmptyMap
    /\ "q1" \in DOMAIN accounts["u2"].stats /\ accounts["u2"].stats["q1"] = 1

\* C16: stats() reports total = number of accounts, the active and the
\* inactive counts with total = active + inactive, and one entry locked_Q
\* for each queue name Q found as a key of some account's locks (the names
\* are read from the locks by the first statement, not from a fixed list),
\* whose value is the number of accounts whose locks[Q] is later than now.
C16_StatsReport ==
    /\ [][StatsKeys("c1") =>
            /\ out'["c1"].keys \subseteq Queues
            /\ \A q \in Queues :
                  q \in out'["c1"].keys <=>
                     \E u \in DOMAIN accounts : q \in DOMAIN accounts[u].locks
         ]_vars
    /\ [][StatsCount("c1") =>
            LET r == out'["c1"]
            IN  /\ r.total = Cardinality(DOMAIN accounts)
                /\ r.total = r.active + r.inactive
                /\ r.active = Cardinality({u \in DOMAIN accounts : accounts[u].active})
                /\ DOMAIN r.locked = out["c1"].keys
                /\ out["c1"].keys = LockKeys => DOMAIN r.locked = LockKeys
                /\ \A q \in DOMAIN r.locked :
                      /\ r.locked[q] <= r.total
                      /\ r.locked[q] =
                           Cardinality({u \in DOMAIN accounts :
                               Coalesce0(accounts[u].locks, q) > now
                               /\ q \in DOMAIN accounts[u].locks})
         ]_vars

\* C16's case: a report with one active and one inactive account, q1
\* locked on one account, and q2 present as a key but locked on none
C16_Witness ==
    /\ out["c1"].kind = "stats"
    /\ out["c1"].total = 2 /\ out["c1"].active = 1 /\ out["c1"].inactive = 1
    /\ DOMAIN out["c1"].locked = {"q1", "q2"}
    /\ out["c1"].locked["q1"] = 1
    /\ out["c1"].locked["q2"] = 0

\* the request count and the last use that the listing ranks an account by
Usage(x) == IF x.total_req > 0 /\ x.last_used # <<>> THEN x.last_used[1] + 1 ELSE 0

\* the place of a username among the lower-case forms a < b < c
LowerRank(u) == IF u = "a" THEN 1 ELSE IF u = "B" THEN 2 ELSE 3

\* x is listed before y
ListedBefore(x, y) ==
    \/ x.active /\ ~y.active
    \/ x.active = y.active /\ Usage(x) > Usage(y)
    \/ x.active = y.active /\ Usage(x) = Usage(y)
          /\ LowerRank(x.username) < LowerRank(y.username)

\* C17: accounts_info() returns one entry per stored account, active
\* accounts first, then the accounts with requests counted by latest
\* last_used (accounts without usage after them), then by username without
\* regard to case; total_req is the sum of the account's stats.
C17_InfoOrder ==
    out["c1"].kind = "info" =>
        LET r == out["c1"].items
        IN  /\ Len(r) = Cardinality(DOMAIN accounts)
            /\ {r[i].username : i \in DOMAIN r} = DOMAIN accounts
            /\ \A i, j \in DOMAIN r : i < j => ListedBefore(r[i], r[j])
            /\ \A i \in DOMAIN r :
                  LET st == accounts[r[i].username].stats
                  IN  /\ r[i].total_req = Coalesce0(st, "q1") + Coalesce0(st, "q2")
                      /\ r[i].active = accounts[r[i].username].active

\* C17's case: a listing of three accounts where B, used last, comes
\* before a, and the inactive c with the latest use comes after both
C17_Witness ==
    /\ out["c1"].kind = "info"
    /\ Len(out["c1"].items) = 3
    /\ out["c1"].items[1].username = "B" /\ out["c1"].items[1].total_req = 2
    /\ out["c1"].items[2].username = "a" /\ out["c1"].items[2].total_req = 1
    /\ out["c1"].items[3].username = "c" /\ ~out["c1"].items[3].active
    /\ out["c1"].items[3].last_used = <<2 * TickStep>>
    /\ out["c1"].items[3].total_req = 1

\* ------------------------------------------------------------- C18
OneRowPerUrl(tbl) == \A i, j \in DOMAIN tbl : tbl[i].url = tbl[j].url => i = j

HasRow(tbl, url) == \E i \in DOMAIN tbl : tbl[i].url = url

RowsKept == \A i \in DOMAIN proxies : i \in DOMAIN proxies' /\ proxies'[i] = proxies[i]

\* C18: ensure(url) and the bulk load insert a url only if it is absent: after
\* any sequence of them there is exactly one row per url given, and a row that
\* was stored keeps its id, active flag, fail_count and last_failed; a new row
\* has the defaults.
C18_InsertIfAbsent ==
    [][ /\ OneRowPerUrl(proxies')
        /\ \A url \in Urls : Ensure(url) =>
              /\ RowsKept
              /\ HasRow(proxies', url)
              /\ HasRow(proxies, url) => proxies' = proxies
              /\ \A i \in DOMAIN proxies' \ DOMAIN proxies : proxies'[i] = NewProxy(url)
        /\ \A urls \in UrlLists : BulkLoad(urls) =>
              /\ RowsKept
              /\ \A k \in 1..Len(urls) : HasRow(proxies', urls[k])
              /\ (\A k \in 1..Len(urls) : HasRow(proxies, urls[k])) => proxies' = proxies
              /\ \A i \in DOMAIN proxies' \ DOMAIN proxies :
                    \E k \in 1..Len(urls) : proxies'[i] = NewProxy(urls[k]) ]_vars

\* an insert was repeated for the only stored url, whose proxy has failed
C18_Witness ==
    /\ DOMAIN proxies = {1}
    /\ proxies[1].fail_count = 1
    /\ ~proxies[1].active
    /\ next_id = 3

\* ------------------------------------------------------------- C19
\* C19: get_active() returns a proxy only if it is active when read, returns
\* None exactly when no proxy is active, and changes no proxy; two callers may
\* hold the same proxy.
C19_GetActive ==
    [][ \A c \in Callers : GetActive(c) =>
          /\ proxies' = proxies
          /\ next_id' = next_id
          /\ out'[c].kind = "proxy"
          /\ out'[c].url = NULL <=> ~(\E i \in DOMAIN proxies : proxies[i].active)
          /\ out'[c].url # NULL =>
                /\ out'[c].id \in DOMAIN proxies
                /\ proxies[out'[c].id].active
                /\ proxies[out'[c].id].url = out'[c].url ]_vars

\* both callers were given the same proxy, which is still active
C19_Witness ==
    /\ out["c1"].kind = "proxy"
    /\ out["c2"] = out["c1"]
    /\ out["c1"].id \in DOMAIN proxies
    /\ proxies[out["c1"].id].active
    /\ Cardinality(DOMAIN proxies) = 2

\* ------------------------------------------------------------- C20
\* C20: mark_failed(id) sets the proxy inactive, adds exactly 1 to fail_count
\* and stamps last_failed, also when the proxy was inactive, and changes no
\* other proxy; get_active() never returns a proxy that was marked failed.
C20_MarkFailed ==
    [][ /\ \A id \in 1..MaxId : (MarkFailed(id) /\ id \in DOMAIN proxies) =>
              /\ DOMAIN proxies' = DOMAIN proxies
              /\ ~proxies'[id].active
              /\ proxies'[id].fail_count = proxies[id].fail_count + 1
              /\ proxies'[id].last_failed = <<now>>
              /\ proxies'[id].url = proxies[id].url
              /\ \A j \in DOMAIN proxies \ {id} : proxies'[j] = proxies[j]
        /\ \A id \in 1..MaxId : (MarkFailed(id) /\ id \notin DOMAIN proxies) =>
              proxies' = proxies
        /\ \A c \in Callers : (GetActive(c) /\ out'[c].url # NULL) =>
              proxies[out'[c].id].fail_count = 0 ]_vars

\* a proxy was marked failed twice, the second time later than the first, and
\* a caller was then given the other proxy
C20_Witness ==
    /\ DOMAIN proxies = {1, 2}
    /\ proxies[1].fail_count = 2
    /\ proxies[1].last_failed = <<TickStep>>
    /\ proxies[2].active
    /\ out["c1"].kind = "proxy"
    /\ out["c1"].id = 2

\* ------------------------------------------------------------- C21
\* C21: proxy health is monotone: no step deletes a proxy row, makes an
\* inactive proxy active again, lowers a fail_count or changes a url.
C21_HealthMonotone ==
    [][ \A i \in DOMAIN proxies :
          /\ i \in DOMAIN proxies'
          /\ proxies'[i].url = proxies[i].url
          /\ ~proxies[i].active => ~proxies'[i].active
          /\ proxies'[i].fail_count >= proxies[i].fail_count ]_vars

\* a proxy failed twice, its url was ensured again (the id 2 was drawn and
\* dropped) and another proxy was stored afterwards
C21_Witness ==
    /\ DOMAIN proxies = {1, 3}
    /\ proxies[1].fail_count = 2
    /\ ~proxies[1].active
    /\ proxies[3].active

\* ------------------------------------------------------------- C27
\* the queue a caller of SpecPair works on
OwnQueue(c) == IF c = "c1" THEN "q1" ELSE "q2"

\* C27: leases and releases of one account for different queues do not
\* conflict: a statement run for one queue leaves the lock and the request
\* count of the other queue as they were, a lease stays as written until its
\* holder releases it, and a release leaves the unlock time it wrote.
C27_QueuesIndependent ==
    [][ \A c \in Callers :
          LET q == OwnQueue(c)
              old == accounts["u1"]
              new == accounts'["u1"]
          IN  /\ pc'[c] # pc[c] =>
                    /\ SameExcept(new.locks, old.locks, q)
                    /\ SameExcept(new.stats, old.stats, q)
              /\ pc'[c] = "holding" =>
                    /\ held'[c].queue = q
                    /\ q \in DOMAIN new.locks
                    /\ new.locks[q] = held'[c].until
              /\ \A t \in UnlockAts, d \in 0..MaxDelta : LockUntil(c, t, d) =>
                    /\ new.locks[q] = t
                    /\ new.stats[q] = Coalesce0(old.stats, q) + d
              /\ UnlockStats(c) =>
                    new.stats[q] = Coalesce0(old.stats, q) + pend[c].req ]_vars

\* both callers hold the account, leased at different times, each for its
\* own queue, and a request was counted on both queues before
C27_Witness ==
    /\ pc["c1"] = "holding" /\ pc["c2"] = "holding"
    /\ held["c1"].user = "u1" /\ held["c2"].user = "u1"
    /\ held["c1"].until # held["c2"].until
    /\ accounts["u1"].locks = [k \in Queues |-> held[IF k = "q1" THEN "c1" ELSE "c2"].until]
    /\ accounts["u1"].stats = [k \in Queues |-> 1]

\* ------------------------------------------------------------- C28
\* C28: reset_locks() leaves locks empty for every account, so that every
\* active account is leasable for every queue, and changes no other field of
\* any account.
C28_ResetLocks ==
    [][ ResetLocks("c1") =>
          /\ DOMAIN accounts' = DOMAIN accounts
          /\ \A u \in DOMAIN accounts :
                /\ accounts'[u].locks = EmptyMap
                /\ accounts'[u] = [accounts[u] EXCEPT !.locks = EmptyMap]
                /\ accounts'[u].active =>
                      \A q \in Queues : Eligible(accounts'[u], q, now) ]_vars

\* ------------------------------------------------------------- C29
\* C29: when the login collaborator raises for an inactive account, login
\* leaves the account inactive with the failure recorded as its error_msg
\* (and returns False); when it succeeds, the account's new state is stored.
C29_LoginFailureRecorded ==
    [][ \A c \in Callers :
          /\ (LoginSave(c, FALSE) /\ ~obj[c].row.active) =>
                /\ ~accounts'[obj[c].user].active
                /\ accounts'[obj[c].user].error_msg # NULL
          /\ (LoginSave(c, TRUE) /\ ~obj[c].row.active) =>
                accounts'[obj[c].user] = LoginOutcome(obj[c].row, TRUE) ]_vars

\* ------------------------------------------------------------- C30
\* C30: a lease attempt that finds no eligible account changes nothing in
\* the store, and neither does any other step of a wait that has not been
\* given an account: a caller that gives the wait up has modified no
\* account and holds nothing.
C30_FailedAttemptChangesNothing ==
    [][ /\ (pc["c1"] \in {"w_attempt", "w_nat", "w_sleep"} /\ pc'["c1"] # pc["c1"]
            /\ pc'["c1"] # "holding") =>
              /\ accounts' = accounts
              /\ proxies' = proxies
              /\ held'["c1"] = NoLease
        /\ (GetForQueue("c2", "q1") /\ pc'["c2"] = "empty") =>
              accounts' = accounts /\ held'["c2"] = NoLease ]_vars

\* the wait was given up after two failed attempts, while the only active
\* account was locked by the other caller
C30_Witness ==
    /\ out["c1"] = [kind |-> "abandoned", polls |-> 2]
    /\ pc["c1"] = "idle"
    /\ held["c1"] = NoLease
    /\ pc["c2"] = "holding"
    /\ \A u \in DOMAIN accounts : accounts[u].active => "q1" \in DOMAIN accounts[u].locks

\* ------------------------------------------------------------- C22
\* C22: when the first attempt of a request fails at the proxy and another
\* proxy is active when the client selects again, (a) the failed proxy is
\* marked inactive, (b) the retry uses a different proxy, active when it was
\* selected, (c) the account's proxy_id is the new proxy when the retry is
\* issued, and (d) the caller gets the retry's response when the retry
\* succeeds.
C22_Rotation ==
    [][ /\ ClientMarkFailed("c1") =>
              /\ cl["c1"].tries = 1
              /\ ~proxies'[cl["c1"].proxy].active
              /\ cl'["c1"].failed = cl["c1"].proxy
        /\ (ClientReselect("c1") /\ \E i \in DOMAIN proxies : proxies[i].active) =>
              /\ cl'["c1"].stage = "persist"
              /\ cl'["c1"].proxy # cl["c1"].failed
              /\ proxies[cl'["c1"].proxy].active
              /\ ~proxies[cl["c1"].failed].active
        /\ (cl'["c1"].stage = "request" /\ cl'["c1"].tries = 1) =>
              /\ proxy_id'[held'["c1"].user] = cl'["c1"].proxy
              /\ cl'["c1"].proxy # cl'["c1"].failed
        /\ (ClientReturn("c1") /\ cl["c1"].tries = 2 /\ cl["c1"].result = "ok") =>
              out'["c1"] = [kind |-> "response", result |-> "ok", tries |-> 2] ]_vars

\* the caller got the response of a retry, the account had no proxy of its
\* own before, the first proxy is inactive and the account refers to another
\* proxy, which is active
C22_Witness ==
    /\ out["c1"] = [kind |-> "response", result |-> "ok", tries |-> 2]
    /\ Cardinality(DOMAIN proxies) = 2
    /\ \E i \in DOMAIN proxies :
          /\ ~proxies[i].active /\ proxies[i].fail_count = 1
          /\ proxy_id["u1"] \in DOMAIN proxies \ {i}
          /\ proxies[proxy_id["u1"]].active
          /\ \A j \in DOMAIN proxies \ {i} : proxies[j].fail_count = 0

\* ------------------------------------------------------------- C23
\* C23: a request takes the proxy retry at most once: its second proxy
\* failure is surfaced as a proxy failure and not retried, so a request
\* issues at most two transport attempts.
C23_RetryOnce ==
    [][ /\ cl'["c1"].tries <= 2
        /\ (ClientAttempt("c1", "proxy_error") /\ cl["c1"].tries = 1) =>
              /\ cl'["c1"].stage = "surface"
              /\ cl'["c1"].result = "proxy_error"
        /\ (cl["c1"].stage = "surface" /\ cl'["c1"].stage # "surface") =>
              /\ ClientReturn("c1")
              /\ out'["c1"].result = "proxy_error"
        /\ ClientReturn("c1") => out'["c1"].tries = cl["c1"].tries ]_vars

\* the caller got a proxy failure after two attempts
C23_Witness ==
    /\ out["c1"] = [kind |-> "response", result |-> "proxy_error", tries |-> 2]
    /\ cl["c1"] = NoReq

\* ------------------------------------------------------------- C24
\* C24: when no proxy is active after the failed one was marked failed, the
\* failure is surfaced without a retry, and the failed proxy is inactive.
C24_NoAlternate ==
    [][ /\ (ClientReselect("c1") /\ ~(\E i \in DOMAIN proxies : proxies[i].active)) =>
              /\ cl'["c1"].stage = "surface"
              /\ cl'["c1"].tries = 1
              /\ cl'["c1"].result = "proxy_error"
              /\ ~proxies'[cl["c1"].failed].active
        /\ (ClientReturn("c1") /\ cl["c1"].result = "proxy_error") =>
              /\ out'["c1"].result = "proxy_error"
              /\ cl["c1"].failed # 0
              /\ ~proxies[cl["c1"].failed].active
              /\ cl["c1"].tries = 1 => ~(\E i \in DOMAIN proxies : proxies[i].active) ]_vars

\* the caller got a proxy failure after one attempt, and no proxy is active
C24_Witness ==
    /\ out["c1"] = [kind |-> "response", result |-> "proxy_error", tries |-> 1]
    /\ \A i \in DOMAIN proxies : ~proxies[i].active
    /\ \E i \in DOMAIN proxies : proxies[i].fail_count = 1

\* ------------------------------------------------------------- C25
\* C25: the release of a successful request adds exactly 1 to stats[A][Q] and
\* releases A's lock for Q: without a reset signal the lock is gone and A, if
\* active, is leasable for Q again; with one the lock is the reset time and A
\* is not leasable for Q at any time up to it.
C25_SuccessRelease ==
    [][ LET u == "u1"
            q == "q1"
            old == accounts[u]
            new == accounts'[u]
        IN  /\ ClientUnlock("c1") =>
                  /\ held["c1"].user = u /\ held["c1"].queue = q
                  /\ new.active => Eligible(new, q, now)
                  /\ new.stats = old.stats
                  /\ pc'["c1"] = "unlock_stats"
            /\ UnlockStats("c1") =>
                  /\ new.stats[q] = Coalesce0(old.stats, q) + 1
                  /\ new.locks = old.locks
                  /\ new.active => Eligible(new, q, now)
            /\ ClientLockUntil("c1") =>
                  /\ new.stats[q] = Coalesce0(old.stats, q) + 1
                  /\ new.locks[q] = now + ResetAfter
                  /\ \A t \in now..(now + ResetAfter) : ~Eligible(new, q, t)
            /\ (ClientReturn("c1") /\ cl["c1"].result = "ok") =>
                  /\ cl["c1"].stage \in {"release_now", "release_reset"}
                  /\ Coalesce0(old.stats, q) >= 1 ]_vars

\* the caller got the response of a request that carried a reset signal:
\* one request is counted and the account is locked until the reset
C25_Witness ==
    /\ out["c1"] = [kind |-> "response", result |-> "ok", tries |-> 1]
    /\ accounts["u1"].stats = [k \in {"q1"} |-> 1]
    /\ accounts["u1"].locks = [k \in {"q1"} |-> now + ResetAfter]
    /\ now > 0

\* ------------------------------------------------------------- C26
\* C26: on an account-level failure the client marks the account inactive
\* with the reason, surfaces the failure without another attempt and leaves
\* the account's lock for the queue as it is; the account is not leased
\* again afterwards (unless a login succeeds for it).
C26_AuthFailure ==
    [][ /\ \A m \in Msgs : ClientMarkInactive("c1", m) =>
              /\ ~accounts'[held["c1"].user].active
              /\ accounts'[held["c1"].user].error_msg = m
              /\ accounts'[held["c1"].user].locks = accounts[held["c1"].user].locks
        /\ cl["c1"].stage = "deactivate" =>
              /\ cl'["c1"] \in {cl["c1"], NoReq}
              /\ cl'["c1"] = NoReq =>
                    out'["c1"] = [kind |-> "response", result |-> "auth_error",
                                  tries |-> cl["c1"].tries]
        /\ Granted("c1") => ~marked[held'["c1"].user] ]_vars
\* ------------------------------------------------------------- C31
\* C31: mark_inactive(username, error_msg) changes only active and error_msg
\* of that account: its locks (an unexpired lease lock included), its stats
\* and its last_used stay as they were, and no other account is touched.
C31_MarkInactiveFrame ==
    [][\A c \in Callers, m \in Msgs :
          MarkInactive(c, m) =>
            LET u == held[c].user
            IN  /\ DOMAIN accounts' = DOMAIN accounts
                /\ accounts'[u] = [accounts[u] EXCEPT !.active = accounts'[u].active,
                                                      !.error_msg = accounts'[u].error_msg]
                /\ accounts'[u].locks = accounts[u].locks
                /\ accounts'[u].stats = accounts[u].stats
                /\ accounts'[u].last_used = accounts[u].last_used
                /\ \A v \in (DOMAIN accounts) \ {u} : accounts'[v] = accounts[v]
      ]_vars

\* C31's case: an account was deactivated while its lease lock is unexpired
\* and a request is counted for it, and the other account is leased
C31_Witness ==
    \E u, v \in DOMAIN accounts :
        /\ u # v
        /\ ~accounts[u].active /\ accounts[u].error_msg \in Msgs
        /\ "q1" \in DOMAIN accounts[u].locks /\ accounts[u].locks["q1"] > now
        /\ "q1" \in DOMAIN accounts[u].stats /\ accounts[u].stats["q1"] = 1
        /\ accounts[u].last_used # <<>>
        /\ \E c \in Callers : held[c].user = v /\ intact[c]
\* ------------------------------------------------------------- C32
\* C32: unlock(username, Q, delta) with delta > 0 releases the lock and
\* increases stats[Q] as one atomic change: while an unlock has released the
\* lock and not yet increased the count, no other caller is returned the
\* account for Q.
C32_UnlockAtomic ==
    [][\A c, d \in Callers :
          (pc[c] = "unlock_stats" /\ Granted(d))
              => ~(held'[d].user = pend[c].user /\ held'[d].queue = pend[c].queue)
      ]_vars
\* ------------------------------------------------------------- C33
\* C33: within one call of get_for_queue_or_wait the next_available_at query
\* and the 'no account available' message happen at most once, on the first
\* failed attempt: the query runs only when exactly one attempt has failed
\* and nothing was shown yet, the message is shown only by that query, and
\* every later failed attempt finds msg_shown set and goes to sleep.
C33_MessageOnce ==
    /\ [](\A c \in Callers :
             /\ pc[c] = "w_nat" => (polls[c] = 1 /\ ~msg_shown[c])
             /\ (pc[c] \in {"w_attempt", "w_sleep"} /\ polls[c] >= 1) => msg_shown[c])
    /\ [][\A c \in Callers :
             /\ (~msg_shown[c] /\ msg_shown'[c]) => (pc[c] = "w_nat" /\ polls[c] = 1)
             /\ (msg_shown[c] /\ pc[c] = "w_attempt" /\ pc'[c] \notin {"w_attempt", "holding"})
                    => (pc'[c] = "w_sleep" /\ msg_shown'[c])
         ]_vars

\* C33's case: a wait in which two attempts have failed and the message
\* was shown, asleep before its third attempt
C33_Witness ==
    /\ pc["c1"] = "w_sleep" /\ polls["c1"] = 2 /\ msg_shown["c1"]
    /\ pend["c1"].queue = "q1"
\* ------------------------------------------------------------- C34
\* C34: with the default order (by username) get_for_queue(Q) returns the
\* eligible account with the smallest username: the account returned is
\* eligible and no eligible account sorts before it, so the account returned
\* is determined by the state of the store.
C34_SmallestUsername ==
    /\ [](\A q \in Queues : Cardinality(SelectForQueue(q)) <= 1)
    /\ [][\A c \in Callers :
             Granted(c) =>
                LET u == held'[c].user
                    q == held'[c].queue
                IN  /\ u \in DOMAIN accounts
                    /\ Eligible(accounts[u], q, now)
                    /\ \A v \in DOMAIN accounts :
                          Eligible(accounts[v], q, now) => Rank(u) <= Rank(v)
         ]_vars

\* C34's case: with both accounts active, one caller was returned u1 and the
\* next one, u1 being locked, was returned u2
C34_Witness ==
    \E c, d \in Callers :
        /\ held[c].user = "u1" /\ held[d].user = "u2"
        /\ held[c].queue = held[d].queue
        /\ intact[c] /\ intact[d]
        /\ accounts["u1"].active /\ accounts["u2"].active
        /\ held[d].at <= held[c].until
\* ------------------------------------------------------------- C35
\* C35: the transport built for a request uses the account's own proxy
\* whenever the account has one; a proxy from the registry or from any other
\* source is used only when the account has none.
C35_OwnProxyFirst ==
    \A c \in Callers :
        (out[c].kind = "client" /\ out[c].own # NULL) => out[c].proxy = out[c].own
\* ------------------------------------------------------------- C36
\* the usage count of (u, q) in a table of accounts, 0 if there is none
CountOf(rows, u, q) == IF q \in DOMAIN rows[u].stats THEN rows[u].stats[q] ELSE 0

C37_LoginKeepsBookkeeping ==
    [][\A c \in Callers, ok \in BOOLEAN :
          (LoginSave(c, ok) /\ obj[c].user \in DOMAIN accounts) =>
              /\ accounts'[obj[c].user].locks = accounts[obj[c].user].locks
              /\ accounts'[obj[c].user].stats = accounts[obj[c].user].stats
      ]_vars
\* ------------------------------------------------------------- C38
\* C38: of two add calls for the same username that run concurrently, the
\* one whose insert is applied second finds the row of the first and leaves
\* it as it is: exactly one row, holding the data of the first insert.
C38_ConcurrentAdd ==
    [][\A c \in Callers :
          (AddSave(c) /\ obj[c].user \in DOMAIN accounts) =>
              accounts'[obj[c].user] = accounts[obj[c].user]
      ]_vars
====
